---------------------------- MODULE Spec2Model ----------------------------
(***************************************************************************)
(* Model of the statistical analysis engine of fund-anomaly-demo:          *)
(*   backend/app/data_loader.py  compute_rolling_metrics and its cache     *)
(*   backend/app/anomaly.py      detect_anomalies, generate_explanation,   *)
(*                               calculate_confidence_score,               *)
(*                               _determine_signal_type,                   *)
(*                               get_recent_anomalies, get_anomaly_signals,*)
(*                               analyze_fund_risk, _calculate_risk_score  *)
(*   backend/app/routes.py       GET /fund/{scheme_code}                   *)
(*                                                                         *)
(* Numbers.  A pandas/numpy float is a record [k, v]: k = "fin" with the   *)
(* value v in fixed point, k = "nan", or k = "inf" with v = 1 or -1.       *)
(* Fixed-point units: a z-score, a threshold and a confidence are in       *)
(* 1/ZScale, a return, a rolling mean/std, a volatility and a drawdown in  *)
(* 1/RScale, a NAV in whole units.  Arithmetic rounds to the nearest unit. *)
(***************************************************************************)
EXTENDS Integers, Sequences, FiniteSets, TLC

VARIABLES
    scored,            \* detect_anomalies: the table passed in (df)
    zscore_threshold,  \* detect_anomalies: the threshold passed in
    classified,        \* detect_anomalies: the table returned
    reclassified,      \* detect_anomalies: the table returned for the returned table
    confidence,        \* calculate_confidence_score: last argument and result
    signal_type,       \* _determine_signal_type: last row and result
    nav_df,            \* compute_rolling_metrics: the table the caller passes (df)
    window,            \* compute_rolling_metrics: the window the caller passes
    processed_cache,   \* data_loader._processed_cache
    processed,         \* compute_rolling_metrics: the table returned
    risk_df,           \* analyze_fund_risk: the table passed in (df)
    risk_code,         \* analyze_fund_risk: the scheme_code passed in
    risk_metrics,      \* analyze_fund_risk: the value returned
    feed_df,           \* get_recent_anomalies, get_anomaly_signals: the table passed in
    feed_args,         \* get_recent_anomalies, get_anomaly_signals: days and limit
    feed,              \* get_recent_anomalies, get_anomaly_signals: the list returned
    summary,           \* get_anomaly_summary: the counts returned
    response,          \* GET /signals: the query and the list returned
    parquet_file,      \* the stored NAV file, None while there is none
    nav_cache,         \* _nav_cache
    scheme_cache,      \* _scheme_cache
    overview_cache,    \* _overview_cache
    discarded,         \* the caches the latest upload cleared
    reply,             \* the reply to the latest request of the data store
    active_connections,\* ConnectionManager.active_connections
    handler,           \* the position of the handler of every websocket
    disconnect_call    \* the latest call of ConnectionManager.disconnect

vars == <<scored, zscore_threshold, classified, reclassified, confidence, signal_type,
          nav_df, window, processed_cache, processed,
          risk_df, risk_code, risk_metrics, feed_df, feed_args, feed,
          summary, response,
          parquet_file, nav_cache, scheme_cache, overview_cache, discarded, reply,
          active_connections, handler, disconnect_call>>

classifyVars == <<scored, zscore_threshold, classified, reclassified, confidence,
                  signal_type>>
rollingVars == <<nav_df, window, processed_cache, processed>>
profileVars == <<risk_df, risk_code, risk_metrics>>
feedVars == <<feed_df, feed_args, feed, summary, response>>
storeVars == <<parquet_file, nav_cache, scheme_cache, overview_cache, discarded, reply>>
connVars == <<active_connections, handler, disconnect_call>>

\* Python None
None == [k |-> "none"]

-----------------------------------------------------------------------------
(* Floats *)

ZScale == 10 * 10
RScale == 1000 * 100

Fin(n) == [k |-> "fin", v |-> n]
NaN == [k |-> "nan", v |-> 0]
PInf == [k |-> "inf", v |-> 1]
NInf == [k |-> "inf", v |-> -1]

IsFin(x) == x.k = "fin"
IsNaN(x) == x.k = "nan"
IsInf(x) == x.k = "inf"

IAbs(n) == IF n < 0 THEN -n ELSE n
Sign(n) == IF n > 0 THEN 1 ELSE IF n < 0 THEN -1 ELSE 0

\* a / b rounded to the nearest integer, halves away from zero (b > 0)
RoundDiv(a, b) == Sign(a) * ((2 * IAbs(a) + b) \div (2 * b))

\* abs() of a float
FAbs(x) == IF IsNaN(x) THEN NaN ELSE IF IsInf(x) THEN PInf ELSE Fin(IAbs(x.v))

\* x > n and x < n for a float x and a finite n; a comparison with NaN is False
FGt(x, n) == IF IsFin(x) THEN x.v > n ELSE IsInf(x) /\ x.v = 1
FLt(x, n) == IF IsFin(x) THEN x.v < n ELSE IsInf(x) /\ x.v = -1

-----------------------------------------------------------------------------
(* Rows: a row is a record; cols is the set of columns the table has, and *)
(* row.get(key, default) yields the default for a column not in cols.     *)

Get(row, key, default) == IF key \in row.cols THEN row[key] ELSE default


\* A table cell holding a string, as opposed to a float (NaN) cell
Str(s) == [k |-> "str", s |-> s]
IsStr(c) == c.k = "str"
\* f"{c}" of a cell
FormatCell(c) == IF IsStr(c) THEN c.s ELSE IF IsNaN(c) THEN "nan" ELSE "inf"

-----------------------------------------------------------------------------
(* anomaly.py: thresholds, in 1/ZScale *)

ZSCORE_THRESHOLD == 200
HIGH_SEVERITY_THRESHOLD == 300

-----------------------------------------------------------------------------
(* Number formatting *)

Pow10(d) == IF d = 0 THEN 1 ELSE IF d = 1 THEN 10 ELSE 100

\* a / b rounded to the nearest integer, halves to even (a >= 0, b > 0)
RoundHalfEven(a, b) ==
    LET q == a \div b
        r == a % b
    IN  IF 2 * r > b \/ (2 * r = b /\ q % 2 = 1) THEN q + 1 ELSE q

Pad(n, d) == IF d = 2 /\ n < 10 THEN "0" \o ToString(n) ELSE ToString(n)

\* f"{x:.<d>f}" of a float x held in 1/scale, d in {1, 2}
FormatFixed(x, scale, d) ==
    IF IsNaN(x) THEN "nan"
    ELSE IF IsInf(x) THEN (IF x.v > 0 THEN "inf" ELSE "-inf")
    ELSE LET q == RoundHalfEven(IAbs(x.v) * Pow10(d), scale)
         IN  (IF x.v < 0 THEN "-" ELSE "")
                 \o ToString(q \div Pow10(d)) \o "." \o Pad(q % Pow10(d), d)

\* ". ".join(clauses): the words of the clauses, Sep between two clauses
Sep == ". "
RECURSIVE Join(_)
Join(clauses) ==
    IF clauses = <<>> THEN <<>>
    ELSE IF Len(clauses) = 1 THEN clauses[1]
    ELSE clauses[1] \o <<Sep>> \o Join(Tail(clauses))

-----------------------------------------------------------------------------
(* anomaly.py: generate_explanation.  A text is the sequence of its words. *)

\* mutant: the direction word comes first
HeadClauseSwapped(severity_text, direction) ==
    <<direction, "NAV", severity_text, "detected">>

\* the words of f"{severity_text} NAV {direction} detected"
HeadClause(severity_text, direction) == <<severity_text, "NAV", direction, "detected">>

\* mutant: the comparison is not strict
ExceedsNormalRangeNotStrict(daily_return) == ~FLt(FAbs(daily_return), 3 * RScale)

\* abs(daily_return) > 3, daily_return a percentage in 1/RScale
ExceedsNormalRange(daily_return) == FGt(FAbs(daily_return), 3 * RScale)

SeverityText(severity) == IF severity = "high" THEN "Significant" ELSE "Moderate"

generate_explanation(row) ==
    IF ~Get(row, "is_anomaly", FALSE) THEN <<"Normal", "market", "behavior">>
    ELSE
    LET zscore == Get(row, "zscore", Fin(0))
        dr == Get(row, "daily_return", Fin(0))
        \* daily_return * 100, still in 1/RScale
        daily_return == IF IsFin(dr) THEN Fin(dr.v * 100) ELSE dr
        severity == Get(row, "severity", "medium")
        direction == IF FGt(zscore, 0) THEN "increase" ELSE "decrease"
        severity_text == SeverityText(severity)
        explanations0 ==
            << HeadClause(severity_text, direction),
               <<"Unusual", "deviation", "from", "rolling", "mean", "(z-score:",
                 FormatFixed(FAbs(zscore), ZScale, 1) \o ")">> >>
        explanations1 ==
            IF ExceedsNormalRange(daily_return)
            THEN Append(explanations0,
                        <<"Daily", "return", "of",
                          FormatFixed(daily_return, RScale, 2) \o "%",
                          "exceeds", "normal", "range">>)
            ELSE explanations0
        explanations2 ==
            IF severity = "high"
            THEN Append(explanations1, <<"Recommend", "immediate", "review">>)
            ELSE explanations1
    IN  Join(explanations2)

-----------------------------------------------------------------------------
(* anomaly.py: detect_anomalies, one row of the copied table *)

\* mutant: the comparison is not strict
IsAnomalyNotStrict(row, tau) == ~FLt(FAbs(row.zscore), tau)

IsAnomaly(row, tau) == FGt(FAbs(row.zscore), tau)

\* mutant: the two severity assignments in the opposite order
SeverityMediumLast(row, tau) ==
    LET s0 == "normal"
        s1 == IF FGt(FAbs(row.zscore), HIGH_SEVERITY_THRESHOLD) THEN "high" ELSE s0
        s2 == IF FGt(FAbs(row.zscore), tau) THEN "medium" ELSE s1
    IN  s2

Severity(row, tau) ==
    LET s0 == "normal"
        s1 == IF FGt(FAbs(row.zscore), tau) THEN "medium" ELSE s0
        s2 == IF FGt(FAbs(row.zscore), HIGH_SEVERITY_THRESHOLD) THEN "high" ELSE s1
    IN  s2

Direction(row, is_anomaly) ==
    LET d0 == "none"
        d1 == IF is_anomaly /\ FGt(row.zscore, 0) THEN "up" ELSE d0
        d2 == IF is_anomaly /\ FLt(row.zscore, 0) THEN "down" ELSE d1
    IN  d2

ClassifyRow(row, tau) ==
    LET r1 == [row EXCEPT !.is_anomaly = IsAnomaly(row, tau),
                          !.cols = @ \cup {"is_anomaly"}]
        r2 == [r1 EXCEPT !.severity = Severity(row, tau),
                         !.cols = @ \cup {"severity"}]
        r3 == [r2 EXCEPT !.anomaly_direction = Direction(row, r1.is_anomaly),
                         !.cols = @ \cup {"anomaly_direction"}]
    IN  [r3 EXCEPT !.explanation = generate_explanation(r3),
                   !.cols = @ \cup {"explanation"}]

detect_anomalies(df, tau) == [i \in DOMAIN df |-> ClassifyRow(df[i], tau)]

\* mutant: the columns are assigned to the table passed in
ArgumentAfterInPlace(df, result) == result

\* df = df.copy(): the columns are assigned to the copy, and the table passed
\* in is after the call what it was before
ArgumentAfter(df, result) == df

-----------------------------------------------------------------------------
(* anomaly.py: calculate_confidence_score; argument and result in 1/ZScale *)

calculate_confidence_score(zscore) ==
    LET abs_zscore == FAbs(zscore)
    IN  IF FLt(abs_zscore, ZSCORE_THRESHOLD) THEN Fin(0)
        ELSE IF IsNaN(abs_zscore) THEN NaN
        ELSE IF IsInf(abs_zscore) THEN Fin(ZScale)
        ELSE LET c == RoundDiv(abs_zscore.v - ZSCORE_THRESHOLD, 3)
             IN  Fin(IF c < ZScale THEN c ELSE ZScale)

-----------------------------------------------------------------------------
(* anomaly.py: _determine_signal_type *)

\* mutant: the direction is tested before the severity
determine_signal_type_down_first(row) ==
    LET severity == Get(row, "severity", "medium")
        direction == Get(row, "anomaly_direction", "down")
        category == FormatCell(Get(row, "category", Str("Unknown")))
    IN  IF direction = "down"
        THEN [type |-> "warning", icon |-> "U+1F4C9", color |-> "orange",
              title |-> category \o " fund volatility alert"]
        ELSE IF severity = "high" /\ direction = "up"
        THEN [type |-> "alert", icon |-> "U+1F4C8", color |-> "yellow",
              title |-> category \o " fund unusual spike"]
        ELSE [type |-> "info", icon |-> "U+1F4CA", color |-> "blue",
              title |-> category \o " fund movement detected"]

determine_signal_type(row) ==
    LET severity == Get(row, "severity", "medium")
        direction == Get(row, "anomaly_direction", "down")
        category == FormatCell(Get(row, "category", Str("Unknown")))
    IN  IF severity = "high" /\ direction = "down"
        THEN [type |-> "critical", icon |-> "U+26A0", color |-> "red",
              title |-> category \o " fund major drop detected"]
        ELSE IF severity = "high" /\ direction = "up"
        THEN [type |-> "alert", icon |-> "U+1F4C8", color |-> "yellow",
              title |-> category \o " fund unusual spike"]
        ELSE IF direction = "down"
        THEN [type |-> "warning", icon |-> "U+1F4C9", color |-> "orange",
              title |-> category \o " fund volatility alert"]
        ELSE [type |-> "info", icon |-> "U+1F4CA", color |-> "blue",
              title |-> category \o " fund movement detected"]


-----------------------------------------------------------------------------
(* Float arithmetic of the rolling metrics *)

\* a - b
FSub(a, b) ==
    IF IsNaN(a) \/ IsNaN(b) THEN NaN
    ELSE IF IsInf(a) THEN (IF IsInf(b) /\ b.v = a.v THEN NaN ELSE a)
    ELSE IF IsInf(b) THEN [k |-> "inf", v |-> -b.v]
    ELSE Fin(a.v - b.v)

\* a / b, the quotient held in 1/scale when a and b share a unit; b >= 0
FDiv(a, b, scale) ==
    IF IsNaN(a) \/ IsNaN(b) THEN NaN
    ELSE IF IsInf(a) THEN (IF IsInf(b) THEN NaN ELSE a)
    ELSE IF IsInf(b) THEN Fin(0)
    ELSE IF b.v = 0 THEN (IF a.v = 0 THEN NaN ELSE [k |-> "inf", v |-> Sign(a.v)])
    ELSE Fin(RoundDiv(a.v * scale, b.v))

\* the integer nearest to the square root of n >= 0 (Newton's iteration)
RECURSIVE SqrtFrom(_, _)
SqrtFrom(n, x) ==
    LET y == (x + n \div x) \div 2
    IN  IF y >= x THEN x ELSE SqrtFrom(n, y)
RoundSqrt(n) ==
    LET r == IF n = 0 THEN 0 ELSE SqrtFrom(n, n)
    IN  IF n - r * r > r THEN r + 1 ELSE r

\* The sum of a sequence of integers, by halves
RECURSIVE SumSeq(_)
SumSeq(xs) ==
    IF xs = <<>> THEN 0
    ELSE IF Len(xs) = 1 THEN xs[1]
    ELSE SumSeq(SubSeq(xs, 1, Len(xs) \div 2))
            + SumSeq(SubSeq(xs, Len(xs) \div 2 + 1, Len(xs)))

-----------------------------------------------------------------------------
(* data_loader.py: compute_rolling_metrics *)

\* rolling(window=window, min_periods=5); window: int = 20
MIN_PERIODS == 5
DEFAULT_WINDOW == 20
\* np.sqrt(252), in thousandths
SQRT_252 == 15875

\* mutant: the rows are not filtered
SelectSchemeUnfiltered(df, scheme_code) == df

\* df[df['scheme_code'] == scheme_code]
SelectScheme(df, scheme_code) == SelectSeq(df, LAMBDA r : r.scheme_code = scheme_code)

\* df.sort_values(['scheme_code', 'date']): a stable sort
RowLe(a, b) ==
    \/ a.scheme_code < b.scheme_code
    \/ a.scheme_code = b.scheme_code /\ a.date <= b.date

RECURSIVE InsertRow(_, _)
InsertRow(sorted, row) ==
    IF sorted = <<>> THEN <<row>>
    ELSE IF RowLe(sorted[Len(sorted)], row) THEN Append(sorted, row)
    ELSE Append(InsertRow(SubSeq(sorted, 1, Len(sorted) - 1), row), sorted[Len(sorted)])

RECURSIVE SortValues(_)
SortValues(df) ==
    IF df = <<>> THEN <<>>
    ELSE InsertRow(SortValues(SubSeq(df, 1, Len(df) - 1)), df[Len(df)])

\* mutant: the whole table is one group
GroupStartOfTable(df, i) == 1

\* groupby('scheme_code'): the first row of the group of row i (df sorted)
RECURSIVE GroupStart(_, _)
GroupStart(df, i) ==
    IF i > 1 /\ df[i - 1].scheme_code = df[i].scheme_code
    THEN GroupStart(df, i - 1) ELSE i

\* groupby('scheme_code')['nav'].pct_change() at row i
PctChange(df, i) ==
    IF GroupStart(df, i) = i THEN NaN
    ELSE FSub(FDiv(Fin(df[i].nav), Fin(df[i - 1].nav), RScale), Fin(RScale))

\* The observations of the trailing window at row i: the finite returns of the
\* last `w` rows of the group (rolling treats an infinite value as missing)
WindowObs(df, ret, i, w) ==
    LET lo == IF i - w + 1 > GroupStart(df, i) THEN i - w + 1 ELSE GroupStart(df, i)
        idx == SelectSeq([j \in 1..(i - lo + 1) |-> lo + j - 1], LAMBDA j : IsFin(ret[j]))
    IN  [j \in DOMAIN idx |-> ret[idx[j]].v]

\* mutant: one observation is enough for a mean
RollingMeanMinOne(df, ret, i, w) ==
    LET obs == WindowObs(df, ret, i, w)
    IN  IF Len(obs) < 1 THEN NaN
        ELSE Fin(RoundDiv(SumSeq(obs), Len(obs)))

\* x.rolling(window, min_periods=5).mean() at row i
RollingMean(df, ret, i, w) ==
    LET obs == WindowObs(df, ret, i, w)
    IN  IF Len(obs) < MIN_PERIODS THEN NaN
        ELSE Fin(RoundDiv(SumSeq(obs), Len(obs)))

\* x.rolling(window, min_periods=5).std() at row i (sample deviation, ddof = 1)
RollingStd(df, ret, i, w) ==
    LET obs == WindowObs(df, ret, i, w)
        n == Len(obs)
        mean == RoundDiv(SumSeq(obs), n)
        \* deviations in 10/RScale, so that their squares stay within 32-bit integers
        dev == [j \in DOMAIN obs |-> RoundDiv(obs[j] - mean, 10)]
        sq == [j \in DOMAIN obs |-> dev[j] * dev[j]]
    IN  IF n < MIN_PERIODS THEN NaN
        ELSE Fin(10 * RoundSqrt(RoundDiv(SumSeq(sq), n - 1)))

\* mutant: the maximum is not carried along
CumMaxNotCarried(df, i) == df[i].nav

\* groupby('scheme_code')['nav'].cummax() at row i
RECURSIVE CumMax(_, _)
CumMax(df, i) ==
    IF GroupStart(df, i) = i THEN df[i].nav
    ELSE LET m == CumMax(df, i - 1)
         IN  IF df[i].nav > m THEN df[i].nav ELSE m

\* mutant: the infinite values are left in the frame
ReplaceInfForgotten(x) == x

\* df.replace([np.inf, -np.inf], np.nan) on one cell
ReplaceInf(x) == IF IsInf(x) THEN NaN ELSE x

\* mutant: the missing values are left in the frame
FillNaForgotten(x) == x

\* .fillna(0) on one cell
FillNa(x) == IF IsNaN(x) THEN Fin(0) ELSE x

\* The table compute_rolling_metrics builds from df when the cache is empty
RollingMetrics(df, w) ==
    LET sorted == SortValues(df)
        ret == [i \in DOMAIN sorted |-> PctChange(sorted, i)]
        row(i) ==
            LET daily_return == ret[i]
                rolling_mean == RollingMean(sorted, ret, i, w)
                rolling_std == RollingStd(sorted, ret, i, w)
                zscore == FillNa(FDiv(FSub(daily_return, rolling_mean), rolling_std, ZScale))
                volatility == IF IsFin(rolling_std)
                              THEN Fin(RoundDiv(rolling_std.v * SQRT_252, 1000))
                              ELSE rolling_std
                cummax == Fin(CumMax(sorted, i))
                drawdown == FDiv(FSub(Fin(sorted[i].nav), cummax), cummax, RScale)
            IN  [scheme_code |-> sorted[i].scheme_code,
                 date |-> sorted[i].date,
                 nav |-> ReplaceInf(Fin(sorted[i].nav)),
                 cummax |-> ReplaceInf(cummax),
                 daily_return |-> FillNa(ReplaceInf(daily_return)),
                 rolling_mean |-> FillNa(ReplaceInf(rolling_mean)),
                 rolling_std |-> FillNa(ReplaceInf(rolling_std)),
                 zscore |-> FillNa(ReplaceInf(zscore)),
                 volatility |-> FillNa(ReplaceInf(volatility)),
                 drawdown |-> FillNa(ReplaceInf(drawdown))]
    IN  [i \in DOMAIN sorted |-> row(i)]

-----------------------------------------------------------------------------
(* The classifier on tables of scored rows *)

\* Bounds of the input grids
MaxZSteps == 22
MaxTauSteps == 8
MaxDRSteps == 2

ZStep == ZScale \div 4
TauStep == ZScale \div 2
DRStep == (3 * RScale) \div 200

ZGrid == {k * ZStep : k \in -MaxZSteps..MaxZSteps}
TauGrid == {k * TauStep : k \in -1..MaxTauSteps}
DRGrid == {k * DRStep + e : k \in -MaxDRSteps..MaxDRSteps, e \in {0, 1, 6}}
Categories == {Str("Equity"), Str("Debt")}

Severities == {"normal", "medium", "high"}
Directions == {"none", "up", "down"}
Absent == "<absent>"

ScoredRow(z, dr, cat) ==
    [zscore |-> Fin(z), daily_return |-> Fin(dr), category |-> cat,
     cols |-> {"zscore", "daily_return", "category"},
     is_anomaly |-> FALSE, severity |-> "", anomaly_direction |-> "",
     explanation |-> <<>>]

\* One-row tables over the whole grid, and two-row tables over a coarse one
ClassifyTables ==
    {<<ScoredRow(z, dr, Str("Equity"))>> : z \in ZGrid, dr \in DRGrid}
    \cup {<<ScoredRow(z1, 0, c1), ScoredRow(z2, 0, c2)>> :
            z1 \in {0, 250, -350}, z2 \in {0, 250, -350},
            c1 \in Categories, c2 \in Categories}

Table(rows) == [k |-> "table", rows |-> rows]

RollingIdle ==
    /\ nav_df = <<>>
    /\ window = DEFAULT_WINDOW
    /\ processed_cache = None
    /\ processed = None

\* No call of analyze_fund_risk yet
ProfileIdle ==
    /\ risk_df = None
    /\ risk_code = None
    /\ risk_metrics = None

\* No call of get_recent_anomalies or get_anomaly_signals yet
FeedIdle ==
    /\ feed_df = None
    /\ feed_args = None
    /\ feed = None
    /\ summary = None
    /\ response = None

ConnIdle ==
    /\ active_connections = <<>>
    /\ handler = None
    /\ disconnect_call = None

StoreIdle ==
    /\ parquet_file = None
    /\ nav_cache = None
    /\ scheme_cache = None
    /\ overview_cache = None
    /\ discarded = None
    /\ reply = None

InitClassify ==
    /\ ConnIdle
    /\ StoreIdle
    /\ scored \in ClassifyTables
    /\ zscore_threshold = None
    /\ classified = None
    /\ reclassified = None
    /\ confidence = None
    /\ signal_type = None
    /\ RollingIdle
    /\ ProfileIdle
    /\ FeedIdle

\* df = detect_anomalies(df, zscore_threshold=tau)
DetectAnomalies(tau) ==
    /\ classified' = Table(detect_anomalies(scored, tau))
    /\ scored' = ArgumentAfter(scored, detect_anomalies(scored, tau))
    /\ zscore_threshold' = Fin(tau)
    /\ reclassified' = None
    /\ confidence' = None
    /\ signal_type' = None
    /\ UNCHANGED <<rollingVars, profileVars, feedVars, storeVars, connVars>>

\* detect_anomalies(classified, zscore_threshold): the classifier applied to
\* the table it returned, with the same threshold
DetectAgain ==
    /\ classified # None
    /\ reclassified' = Table(detect_anomalies(classified.rows, zscore_threshold.v))
    /\ classified' = Table(ArgumentAfter(classified.rows,
                              detect_anomalies(classified.rows, zscore_threshold.v)))
    /\ confidence' = None
    /\ signal_type' = None
    /\ UNCHANGED <<scored, zscore_threshold, rollingVars, profileVars, feedVars, storeVars, connVars>>

\* calculate_confidence_score(row['zscore']) on row i of the classified table
CalculateConfidenceScore(i) ==
    /\ classified # None
    /\ i \in DOMAIN classified.rows
    /\ confidence' = [k |-> "confidence", i |-> i,
                      value |-> calculate_confidence_score(classified.rows[i].zscore)]
    /\ signal_type' = None
    /\ UNCHANGED <<scored, zscore_threshold, classified, reclassified, rollingVars,
                 profileVars, feedVars, storeVars, connVars>>

\* _determine_signal_type(row) on a row a caller built: row i of the table with
\* the severity and direction columns the caller chose (or left out).  The call
\* stands alone: the state keeps its result and no earlier classification.
SignalRow(row, sev, dir) ==
    [row EXCEPT !.severity = sev, !.anomaly_direction = dir,
                !.cols = (@ \cup (IF sev = Absent THEN {} ELSE {"severity"}))
                            \cup (IF dir = Absent THEN {} ELSE {"anomaly_direction"})]

DetermineSignalType(i, sev, dir) ==
    /\ i \in DOMAIN scored
    /\ LET row == SignalRow(scored[i], sev, dir)
       IN  signal_type' = [k |-> "signal_type", row |-> row,
                           out |-> determine_signal_type(row)]
    /\ classified' = None
    /\ reclassified' = None
    /\ zscore_threshold' = None
    /\ confidence' = None
    /\ UNCHANGED <<scored, rollingVars, profileVars, feedVars, storeVars, connVars>>

NextClassify ==
    \/ \E tau \in TauGrid : DetectAnomalies(tau)
    \/ DetectAgain
    \/ \E i \in 1..2 : CalculateConfidenceScore(i)
    \/ \E i \in 1..2, sev \in Severities \cup {Absent}, dir \in Directions \cup {Absent} :
          DetermineSignalType(i, sev, dir)

SpecClassify == InitClassify /\ [][NextClassify]_vars


-----------------------------------------------------------------------------
(* Claims on the classifier, checked under SpecClassify *)

\* The classified rows paired with the threshold that classified them
Rows == IF classified = None THEN {} ELSE DOMAIN classified.rows
Tau == zscore_threshold.v
AbsZ(i) == IAbs(scored[i].zscore.v)
Z(i) == scored[i].zscore.v

\* C2: for every row and threshold, is_anomaly is true exactly when
\* |zscore| > tau, strictly
C2_IsAnomalyIffAboveThreshold ==
    \A i \in Rows : classified.rows[i].is_anomaly <=> (AbsZ(i) > Tau)

\* C2 witness: a classified row sitting exactly on a positive threshold
C2_Witness ==
    \E i \in Rows : AbsZ(i) = Tau /\ Tau > 0 /\ ~classified.rows[i].is_anomaly

\* C3: every row has exactly one severity: high if |zscore| > 3.0, otherwise
\* medium if |zscore| > tau, otherwise normal
C3_SeverityPartition ==
    \A i \in Rows :
        /\ classified.rows[i].severity \in Severities
        /\ classified.rows[i].severity =
              IF AbsZ(i) > HIGH_SEVERITY_THRESHOLD THEN "high"
              ELSE IF AbsZ(i) > Tau THEN "medium"
              ELSE "normal"

\* C3 witness: a row is classified high under a threshold above 3.0, where the
\* order of the two severity assignments decides
C3_Witness ==
    \E i \in Rows :
        /\ classified.rows[i].severity = "high"
        /\ Tau > HIGH_SEVERITY_THRESHOLD

\* C4: whatever threshold tau the caller passes, severity high implies
\* |zscore| > tau_h and |zscore| > tau, so a high row is flagged is_anomaly
\* and an unflagged row is normal
C4_HighImpliesAnomaly ==
    \A i \in Rows :
        /\ classified.rows[i].severity = "high" =>
              /\ AbsZ(i) > HIGH_SEVERITY_THRESHOLD
              /\ AbsZ(i) > Tau
              /\ classified.rows[i].is_anomaly
        /\ ~classified.rows[i].is_anomaly => classified.rows[i].severity = "normal"

\* C5: direction is none when the row is not an anomaly, else up when
\* zscore > 0 and down in every other case; an anomaly never has direction none
C5_Direction ==
    \A i \in Rows :
        classified.rows[i].anomaly_direction =
            IF ~classified.rows[i].is_anomaly THEN "none"
            ELSE IF Z(i) > 0 THEN "up"
            ELSE "down"

\* C6: the confidence is in [0,1], 0 for |zscore| below the threshold that
\* flagged the row, 1 at or above that threshold + 3, and non-decreasing in
\* |zscore|
C6_ConfidenceRamp ==
    /\ confidence # None =>
          LET i == confidence.i
              c == confidence.value
          IN  /\ IsFin(c) /\ 0 <= c.v /\ c.v <= ZScale
              /\ AbsZ(i) < Tau => c.v = 0
              /\ AbsZ(i) >= Tau + 3 * ZScale => c.v = ZScale
    /\ confidence # None =>
          \A z \in ZGrid :
              AbsZ(confidence.i) <= IAbs(z) =>
                  confidence.value.v <= calculate_confidence_score(Fin(z)).v

\* The clauses of a text: its words split at Sep
RECURSIVE Clauses(_)
Clauses(text) ==
    IF \A j \in DOMAIN text : text[j] # Sep THEN <<text>>
    ELSE LET j == CHOOSE n \in DOMAIN text :
                      text[n] = Sep /\ \A m \in 1..(n - 1) : text[m] # Sep
         IN  <<SubSeq(text, 1, j - 1)>> \o Clauses(SubSeq(text, j + 1, Len(text)))

Anomalous == {i \in Rows : classified.rows[i].is_anomaly}
Explanation(i) == Clauses(classified.rows[i].explanation)

\* C7 as stated: the first clause of an anomalous row's explanation is exactly
\* "{Significant|Moderate} {increase|decrease} detected", with no other word
C7_FirstClauseAsStated ==
    \A i \in Anomalous :
        Explanation(i)[1] =
            <<IF classified.rows[i].severity = "high" THEN "Significant" ELSE "Moderate",
              IF Z(i) > 0 THEN "increase" ELSE "decrease",
              "detected">>

\* C7 amended: the first clause of an anomalous row's explanation is exactly
\* "{Significant|Moderate} NAV {increase|decrease} detected": Significant iff
\* severity is high, increase iff zscore > 0
C7_FirstClause ==
    \A i \in Anomalous :
        Explanation(i)[1] =
            <<IF classified.rows[i].severity = "high" THEN "Significant" ELSE "Moderate",
              "NAV",
              IF Z(i) > 0 THEN "increase" ELSE "decrease",
              "detected">>

\* C7 witness: a high anomaly going down has been explained
C7_Witness ==
    \E i \in Anomalous :
        /\ classified.rows[i].severity = "high"
        /\ Z(i) < 0
        /\ Explanation(i)[1][1] = "Significant"

\* C8: a row that is not an anomaly gets "Normal market behavior"; an anomaly
\* gets its clauses joined by ". " in fixed order, the daily-return clause
\* present iff |daily_return * 100| > 3 and "Recommend immediate review"
\* present, last, iff severity is high
C8_ExplanationShape ==
    \A i \in Rows :
        LET row == classified.rows[i]
            e == Explanation(i)
            big == IAbs(scored[i].daily_return.v) * 100 > 3 * RScale
            high == row.severity = "high"
            n == 2 + (IF big THEN 1 ELSE 0) + (IF high THEN 1 ELSE 0)
        IN  IF ~row.is_anomaly
            THEN row.explanation = <<"Normal", "market", "behavior">>
            ELSE /\ Len(e) = n
                 /\ e[1][Len(e[1])] = "detected"
                 /\ SubSeq(e[2], 1, 5) = <<"Unusual", "deviation", "from", "rolling", "mean">>
                 /\ big => /\ SubSeq(e[3], 1, 3) = <<"Daily", "return", "of">>
                           /\ SubSeq(e[3], 5, 7) = <<"exceeds", "normal", "range">>
                 /\ high => e[n] = <<"Recommend", "immediate", "review">>
                 /\ \A j \in 1..n :
                       /\ e[j][1] = "Daily" => big /\ j = 3
                       /\ e[j][1] = "Recommend" => high /\ j = n

\* C8 witness: an anomaly whose return is exactly 3 percent (no return clause)
\* and one whose return is just above it, shown as 3.00%
C8_Witness ==
    \E i \in Anomalous :
        /\ classified.rows[i].severity = "high"
        /\ scored[i].daily_return.v * 100 > 3 * RScale
        /\ Explanation(i)[3][4] = "3.00%"
        /\ Len(Explanation(i)) = 4

\* C9: (high, down) -> critical, (high, up) -> alert, (other, down) -> warning,
\* everything else -> info; and the type determines the icon and the color
SignalRows ==
    {SignalRow(ScoredRow(0, 0, Str("Equity")), sev, dir) :
        sev \in Severities \cup {Absent}, dir \in Directions \cup {Absent}}

C9_SignalType ==
    /\ signal_type # None =>
          LET row == signal_type.row
              out == signal_type.out
          IN  {"severity", "anomaly_direction"} \subseteq row.cols =>
                 out.type =
                    IF row.severity = "high" /\ row.anomaly_direction = "down"
                    THEN "critical"
                    ELSE IF row.severity = "high" /\ row.anomaly_direction = "up"
                    THEN "alert"
                    ELSE IF row.anomaly_direction = "down" THEN "warning"
                    ELSE "info"
    /\ signal_type # None =>
          \A r \in SignalRows :
              LET o1 == signal_type.out
                  o2 == determine_signal_type(r)
              IN  /\ o1.type \in {"critical", "alert", "warning", "info"}
                  /\ (o1.type = o2.type) <=> (o1.icon = o2.icon)
                  /\ (o1.type = o2.type) <=> (o1.color = o2.color)

\* C9 witness: a high row going down has been typed critical
C9_Witness ==
    /\ signal_type # None
    /\ signal_type.row.severity = "high"
    /\ signal_type.row.anomaly_direction = "down"
    /\ signal_type.out.type = "critical"


-----------------------------------------------------------------------------
(* compute_rolling_metrics and the process-wide cache *)

\* Bounds of the input tables
MaxNavRows == 6
MaxCacheRows == 2

NavValues == {0, 100, 105}
Windows == {MIN_PERIODS, DEFAULT_WINDOW}

\* The rows of one scheme, one per day, in date order
NavTable(code, navs) ==
    [i \in DOMAIN navs |-> [scheme_code |-> code, date |-> i, nav |-> navs[i]]]

Series(n) == UNION {[1..m -> NavValues] : m \in 1..n}

\* Two schemes whose rows alternate in the file, the later dates first
RECURSIVE Interleave(_, _)
Interleave(a, b) ==
    IF a = <<>> THEN b
    ELSE IF b = <<>> THEN a
    ELSE <<a[Len(a)], b[Len(b)]>>
            \o Interleave(SubSeq(a, 1, Len(a) - 1), SubSeq(b, 1, Len(b) - 1))

Swings == <<100, 105, 100, 105, 100, 105, 100>>

\* Every short series; a long one with every short continuation; two schemes
RollingTables ==
    {NavTable(1, navs) : navs \in Series(MaxNavRows)}
    \cup {NavTable(1, Swings \o navs) : navs \in Series(2)}
    \cup {Interleave(NavTable(2, Swings), NavTable(1, navs)) : navs \in Series(2)}
    \cup {NavTable(2, navs) \o NavTable(1, Swings) : navs \in Series(2)}

CacheTables ==
    {NavTable(1, navs) : navs \in Series(MaxCacheRows)}
    \cup {NavTable(1, Swings)}

ClassifyIdle ==
    /\ scored = <<>>
    /\ zscore_threshold = None
    /\ classified = None
    /\ reclassified = None
    /\ confidence = None
    /\ signal_type = None

InitRolling ==
    /\ ConnIdle
    /\ StoreIdle
    /\ nav_df \in RollingTables
    /\ window \in Windows
    /\ processed_cache = None
    /\ processed = None
    /\ ClassifyIdle
    /\ ProfileIdle
    /\ FeedIdle

InitCache ==
    /\ ConnIdle
    /\ StoreIdle
    /\ nav_df \in CacheTables
    /\ window \in Windows
    /\ processed_cache = None
    /\ processed = None
    /\ ClassifyIdle
    /\ ProfileIdle
    /\ FeedIdle

\* processed = compute_rolling_metrics(nav_df, window)
ComputeRollingMetrics ==
    /\ IF processed_cache # None
       THEN /\ processed' = processed_cache
            /\ UNCHANGED processed_cache
       ELSE LET df == Table(RollingMetrics(nav_df, window))
            IN  /\ processed_cache' = df
                /\ processed' = df
    /\ UNCHANGED <<nav_df, window, classifyVars, profileVars, feedVars, storeVars, connVars>>

\* _clear_cache(): the four caches are reset; compute_rolling_metrics reads and
\* writes _processed_cache alone
ClearCache ==
    /\ processed_cache' = None
    /\ nav_cache' = None
    /\ scheme_cache' = None
    /\ overview_cache' = None
    /\ UNCHANGED <<nav_df, window, processed, parquet_file, discarded, reply,
                   classifyVars, profileVars, feedVars, connVars>>

\* The caller turns to another table and window; it holds no result for them yet
ChangeInput(df, w) ==
    /\ nav_df' = df
    /\ window' = w
    /\ processed' = None
    /\ UNCHANGED <<processed_cache, classifyVars, profileVars, feedVars, storeVars, connVars>>

NextRolling ==
    \/ ComputeRollingMetrics
    \/ ClearCache

NextCache ==
    \/ ComputeRollingMetrics
    \/ ClearCache
    \/ \E df \in CacheTables, w \in Windows : ChangeInput(df, w)

SpecRolling == InitRolling /\ [][NextRolling]_vars
SpecCache == InitCache /\ [][NextCache]_vars

\* C1: the table compute_rolling_metrics(df, window) returns depends only on df
\* and window: it is the table computed from this call's df, never the result
\* computed for an earlier input
C1_NoHiddenMemoization ==
    processed # None => processed.rows = RollingMetrics(nav_df, window)

FloatColumns ==
    {"daily_return", "rolling_mean", "rolling_std", "zscore", "volatility", "drawdown"}

\* C10: every row compute_rolling_metrics returns has finite daily_return,
\* rolling_mean, rolling_std, zscore, volatility and drawdown, also for a table
\* with a zero price or too little history
C10_NoNonFiniteOutput ==
    processed # None =>
        \A i \in DOMAIN processed.rows :
            \A c \in FloatColumns : IsFin(processed.rows[i][c])

\* C10 witness: a table has been scored in which a price of zero is followed by
\* a positive price (an infinite return, and an infinite z-score as the rolling
\* deviation is defined there), both emitted as 0
C10_Witness ==
    /\ processed # None
    /\ \E i \in DOMAIN processed.rows :
          /\ i > 1
          /\ processed.rows[i - 1].scheme_code = processed.rows[i].scheme_code
          /\ processed.rows[i - 1].nav = Fin(0)
          /\ processed.rows[i].nav.v > 0
          /\ processed.rows[i].rolling_std.v > 0
          /\ processed.rows[i].daily_return = Fin(0)
          /\ processed.rows[i].zscore = Fin(0)

\* The position of row i among the rows of its scheme, in date order
GroupPos(rows, i) == i - GroupStart(rows, i) + 1

\* C11: a row among the first five of its scheme, where fewer than five daily
\* returns lie in the trailing window, has rolling_mean, rolling_std, volatility
\* and zscore 0, the first row of the scheme has daily_return 0, and no such row
\* is an anomaly under a threshold that is not negative
C11_ShortHistoryZero ==
    processed # None =>
        \A i \in DOMAIN processed.rows :
            GroupPos(processed.rows, i) <= MIN_PERIODS =>
                /\ processed.rows[i].rolling_mean = Fin(0)
                /\ processed.rows[i].rolling_std = Fin(0)
                /\ processed.rows[i].volatility = Fin(0)
                /\ processed.rows[i].zscore = Fin(0)
                /\ GroupPos(processed.rows, i) = 1 =>
                        processed.rows[i].daily_return = Fin(0)
                /\ \A tau \in TauGrid :
                        tau >= 0 => ~IsAnomaly(processed.rows[i], tau)

\* C11 witness: the fifth row of a scheme carries a return that is not 0 and
\* zero statistics, and the sixth row of the scheme has a deviation above 0
C11_Witness ==
    /\ processed # None
    /\ \E i \in DOMAIN processed.rows :
          /\ GroupPos(processed.rows, i) = MIN_PERIODS
          /\ processed.rows[i].daily_return.v # 0
          /\ processed.rows[i].rolling_std = Fin(0)
          /\ processed.rows[i].zscore = Fin(0)
          /\ i + 1 \in DOMAIN processed.rows
          /\ GroupPos(processed.rows, i + 1) = MIN_PERIODS + 1
          /\ processed.rows[i + 1].rolling_std.v > 0

\* The scheme codes of a table
SchemesOf(df) == {df[i].scheme_code : i \in DOMAIN df}

\* C13: in a table of several schemes, the rows compute_rolling_metrics returns
\* for a scheme (daily_return, rolling_mean, rolling_std, zscore, volatility,
\* running maximum, drawdown) are the rows it returns for the rows of that
\* scheme alone, whatever the other schemes hold and wherever their rows stand
C13_SchemesIndependent ==
    processed # None /\ Cardinality(SchemesOf(nav_df)) > 1 =>
        \A code \in SchemesOf(nav_df) :
            SelectScheme(processed.rows, code)
                = RollingMetrics(SelectScheme(nav_df, code), window)

\* C13 witness: a table of two schemes has been scored; the second scheme
\* starts with a price other than the last price of the first, its first row
\* has the return 0, and its fifth row, where a window shared with the first
\* scheme would hold five returns, has zero statistics
C13_Witness ==
    /\ processed # None
    /\ \E i \in DOMAIN processed.rows :
          /\ processed.rows[i].scheme_code = 2
          /\ GroupStart(processed.rows, i) > 2
          /\ processed.rows[GroupStart(processed.rows, i)].daily_return = Fin(0)
          /\ processed.rows[GroupStart(processed.rows, i)].nav
                # processed.rows[GroupStart(processed.rows, i) - 1].nav
          /\ processed.rows[GroupStart(processed.rows, i) - 1].nav.v > 0
          /\ GroupPos(processed.rows, i) = MIN_PERIODS
          /\ processed.rows[i].rolling_std = Fin(0)
          /\ processed.rows[i].daily_return.v # 0


-----------------------------------------------------------------------------
(* anomaly.py: analyze_fund_risk and _calculate_risk_score.  The numbers of *)
(* the profile are rounded to two decimals and held in hundredths.          *)

\* fund_df.sort_values('date'): row i goes to the place after the rows of an
\* earlier date and the rows of its own date that stand before it
DateRank(df, i) ==
    1 + Cardinality({j \in DOMAIN df :
                        \/ df[j].date < df[i].date
                        \/ df[j].date = df[i].date /\ j < i})

SortByDate(df) ==
    LET rank == [i \in DOMAIN df |-> DateRank(df, i)]
    IN  [k \in DOMAIN df |-> df[CHOOSE i \in DOMAIN df : rank[i] = k]]

\* df[c]
Column(df, c) == [i \in DOMAIN df |-> df[i][c]]

\* Series.dropna(), and the values of a series of finite floats
DropNa(xs) == SelectSeq(xs, LAMBDA x : ~IsNaN(x))
Values(xs) == [j \in DOMAIN xs |-> xs[j].v]

\* Series.mean(): NaN cells are skipped, the mean of no cell is NaN
SeriesMean(xs) ==
    LET obs == Values(DropNa(xs))
    IN  IF obs = <<>> THEN NaN ELSE Fin(RoundDiv(SumSeq(obs), Len(obs)))

\* Series.std(): sample deviation (ddof = 1), NaN for fewer than two cells
SeriesStd(xs) ==
    LET obs == Values(DropNa(xs))
        n == Len(obs)
        mean == RoundDiv(SumSeq(obs), n)
        \* deviations in 10/RScale, so that their squares stay within 32-bit integers
        dev == [j \in DOMAIN obs |-> RoundDiv(obs[j] - mean, 10)]
        sq == [j \in DOMAIN obs |-> dev[j] * dev[j]]
    IN  IF n < 2 THEN NaN
        ELSE Fin(10 * RoundSqrt(RoundDiv(SumSeq(sq), n - 1)))

\* Series.min(): NaN cells are skipped
SeriesMin(xs) ==
    LET obs == Values(DropNa(xs))
        values == {obs[j] : j \in DOMAIN obs}
    IN  IF obs = <<>> THEN NaN
        ELSE Fin(CHOOSE m \in values : \A x \in values : m <= x)

\* round(a / b, 2) in hundredths, for b > 0
Round2(a, b) == Sign(a) * RoundHalfEven(IAbs(a) * 100, b)

\* The number of True cells of a boolean column
CountTrue(xs) == Len(SelectSeq(xs, LAMBDA x : x))

\* mutant: the cutoffs are applied to the volatility as a percentage
VolatilityPointsOfPercent(volatility) ==
    IF FGt(volatility, (3 * RScale) \div 1000) THEN 3
    ELSE IF FGt(volatility, (2 * RScale) \div 1000) THEN 2
    ELSE IF FGt(volatility, RScale \div 1000) THEN 1
    ELSE 0

\* if volatility > 0.3 ... elif volatility > 0.2 ... elif volatility > 0.1
VolatilityPoints(volatility) ==
    IF FGt(volatility, (3 * RScale) \div 10) THEN 3
    ELSE IF FGt(volatility, (2 * RScale) \div 10) THEN 2
    ELSE IF FGt(volatility, RScale \div 10) THEN 1
    ELSE 0

\* if anomaly_rate > 0.1 ... elif anomaly_rate > 0.05 ... elif anomaly_rate > 0.02,
\* anomaly_rate the mean of a boolean column: `anomalous` True cells out of n
AnomalyRatePoints(anomalous, n) ==
    IF anomalous * 10 > n THEN 3
    ELSE IF anomalous * 20 > n THEN 2
    ELSE IF anomalous * 50 > n THEN 1
    ELSE 0

calculate_risk_score(df) ==
    LET volatility == IF "volatility" \in df[1].cols THEN df[Len(df)].volatility ELSE Fin(0)
        is_anomaly == IF "is_anomaly" \in df[1].cols THEN Column(df, "is_anomaly")
                      ELSE <<FALSE>>
        score == VolatilityPoints(volatility)
                    + AnomalyRatePoints(CountTrue(is_anomaly), Len(is_anomaly))
    IN  IF score >= 5 THEN "High"
        ELSE IF score >= 3 THEN "Medium"
        ELSE "Low"

\* round(returns.std() * np.sqrt(252) * 100, 2)
ProfileVolatility(std) ==
    IF IsNaN(std) THEN NaN ELSE Fin(RoundHalfEven(std.v * SQRT_252, 100 * 100))

\* round(<zscore of the anomalous rows>.abs().mean(), 2)
AvgAnomalyMagnitude(magnitudes) ==
    IF magnitudes = <<>> THEN NaN
    ELSE Fin(Round2(SumSeq(Values(magnitudes)), 100 * Len(magnitudes)))

analyze_fund_risk(df, scheme_code) ==
    LET selected == SelectScheme(df, scheme_code)
    IN  IF selected = <<>> THEN None
        ELSE
        LET fund_df == SortByDate(selected)
            classified_cols == "is_anomaly" \in fund_df[1].cols
            returns == DropNa(Column(fund_df, "daily_return"))
            std == SeriesStd(returns)
            mean == SeriesMean(returns)
            drawdown == SeriesMin(Column(fund_df, "drawdown"))
            anomalous == SelectSeq(fund_df, LAMBDA r : Get(r, "is_anomaly", FALSE))
            magnitudes == [j \in DOMAIN anomalous |-> FAbs(anomalous[j].zscore)]
        IN  [k |-> "risk_metrics",
             volatility |-> ProfileVolatility(std),
             max_drawdown |->
                 IF IsNaN(drawdown) THEN NaN ELSE Fin(Round2(drawdown.v, 1000)),
             sharpe_estimate |->
                 IF FGt(std, 0)
                 THEN Fin(Sign(mean.v) * RoundHalfEven(IAbs(mean.v) * SQRT_252, std.v * 10))
                 ELSE Fin(0),
             anomaly_frequency |->
                 IF classified_cols
                 THEN Fin(Round2(100 * CountTrue(Column(fund_df, "is_anomaly")), Len(fund_df)))
                 ELSE Fin(0),
             avg_anomaly_magnitude |->
                 IF classified_cols THEN AvgAnomalyMagnitude(magnitudes) ELSE Fin(0),
             risk_score |-> calculate_risk_score(fund_df)]


-----------------------------------------------------------------------------
(* The risk profile: GET /fund/{scheme_code} and direct calls of            *)
(* analyze_fund_risk on classified tables                                   *)

\* Bounds of the input tables
MaxRiskRows == 3
MaxAnomalous == 6

PositiveNavs == {80, 90, 95, 100}
SchemeCodes == {1, 2, 3}
RiskLengths == {10, 20, 50}
VolatilityGrid == {0} \cup {(k * RScale) \div 10 + e : k \in 1..3, e \in {0, 1}}

Dips == <<100, 90, 95, 80, 100>>
Flat == <<100, 100, 100, 100, 100, 100, 100>>
Spike == <<100, 100, 100, 100, 100, 100, 105>>
Worthless == <<0, 0, 0, 0, 0, 0, 0>>

\* The NAV files of the profile: every short series of positive prices, four
\* longer series, and a file of two schemes
RiskNavTables ==
    {NavTable(1, navs) : navs \in UNION {[1..m -> PositiveNavs] : m \in 1..MaxRiskRows}}
    \cup {NavTable(1, Dips), NavTable(1, Flat), NavTable(1, Spike), NavTable(1, Worthless)}
    \cup {Interleave(NavTable(2, Dips), NavTable(1, Spike))}

\* The columns compute_rolling_metrics returns
ProcessedColumns ==
    {"scheme_code", "date", "nav", "cummax", "daily_return", "rolling_mean",
     "rolling_std", "zscore", "volatility", "drawdown"}

\* The rows of compute_rolling_metrics as rows of a table with those columns
Frame(rows) ==
    [i \in DOMAIN rows |->
        rows[i] @@ [cols |-> ProcessedColumns, is_anomaly |-> FALSE, severity |-> "",
                    anomaly_direction |-> "", explanation |-> <<>>]]

\* A processed row written by hand: day j of a scheme, its z-score and volatility
DirectRow(code, j, z, vol) ==
    [scheme_code |-> code, date |-> j, nav |-> Fin(100), cummax |-> Fin(100),
     daily_return |-> Fin(IF j % 2 = 0 THEN RScale \div 100 ELSE -(RScale \div 100)),
     rolling_mean |-> Fin(0), rolling_std |-> Fin(RoundDiv(vol * 1000, SQRT_252)),
     zscore |-> Fin(z), volatility |-> Fin(vol), drawdown |-> Fin(0)]

\* n rows of scheme 1 of which the first `a` lie beyond the default threshold,
\* the last row with volatility vol and the earlier rows with a high one
DirectRows(n, a, vol) ==
    [j \in 1..n |->
        DirectRow(1, j,
                  IF j > a THEN 150
                  ELSE IF j % 2 = 1 THEN 200 + 50 * j ELSE -(200 + 50 * j),
                  IF j = n THEN vol ELSE 3 * RScale)]

\* Rows of scheme 2, every one beyond the default threshold
OtherRows == [j \in 1..3 |-> DirectRow(2, j, 500, 3 * RScale)]

\* The classified tables analyze_fund_risk is called on directly
DirectTables ==
    {detect_anomalies(Frame(DirectRows(n, a, vol)), ZSCORE_THRESHOLD) :
        n \in RiskLengths, a \in 0..MaxAnomalous, vol \in VolatilityGrid}
    \cup {detect_anomalies(Frame(Interleave(DirectRows(10, a, 0), OtherRows)),
                           ZSCORE_THRESHOLD) : a \in 0..1}
    \cup {<<>>}

\* The scheme_code argument of a call that has been made
Code(scheme_code) == [k |-> "scheme_code", v |-> scheme_code]

InitRisk ==
    /\ ConnIdle
    /\ StoreIdle
    /\ ClassifyIdle
    /\ FeedIdle
    /\ window = DEFAULT_WINDOW
    /\ processed_cache = None
    /\ processed = None
    /\ risk_code = None
    /\ risk_metrics = None
    /\ \/ nav_df \in RiskNavTables /\ risk_df = None
       \/ nav_df = <<>> /\ risk_df \in {Table(df) : df \in DirectTables}

\* GET /fund/{scheme_code} for a scheme of the file (any other is answered 404
\* before the analysis): get_processed_data, the rows of the scheme,
\* detect_anomalies, analyze_fund_risk
GetFund(scheme_code) ==
    /\ SelectScheme(nav_df, scheme_code) # <<>>
    /\ LET df == IF processed_cache # None THEN processed_cache
                 ELSE Table(RollingMetrics(nav_df, DEFAULT_WINDOW))
           fund_df == detect_anomalies(Frame(SelectScheme(df.rows, scheme_code)),
                                       ZSCORE_THRESHOLD)
       IN  /\ processed_cache' = df
           /\ processed' = df
           /\ risk_df' = Table(fund_df)
           /\ risk_code' = Code(scheme_code)
           /\ risk_metrics' = analyze_fund_risk(fund_df, scheme_code)
    /\ UNCHANGED <<nav_df, window, classifyVars, feedVars, storeVars, connVars>>

\* risk_metrics = analyze_fund_risk(risk_df, scheme_code)
AnalyzeFundRisk(scheme_code) ==
    /\ risk_df # None
    /\ risk_code' = Code(scheme_code)
    /\ risk_metrics' = analyze_fund_risk(risk_df.rows, scheme_code)
    /\ UNCHANGED <<risk_df, classifyVars, rollingVars, feedVars, storeVars, connVars>>

NextRisk ==
    \/ \E scheme_code \in SchemeCodes : GetFund(scheme_code)
    \/ \E scheme_code \in SchemeCodes : AnalyzeFundRisk(scheme_code)

SpecRisk == InitRisk /\ [][NextRisk]_vars

\* The rows of the table analyze_fund_risk was called on that belong to the
\* scheme it was called for, in date order
FundRows == SortByDate(SelectScheme(risk_df.rows, risk_code.v))

\* analyze_fund_risk has returned a profile
Profiled == risk_code # None /\ risk_metrics # None

\* The largest price of the scheme of row i up to row i
PeakPrice(rows, i) ==
    LET prices == {rows[j].nav.v : j \in GroupStart(rows, i)..i}
    IN  CHOOSE m \in prices : \A x \in prices : x <= m

\* C12: for positive prices the running maximum of a row is the largest price
\* of its scheme so far and never decreases along the scheme; the drawdown is
\* (price - running maximum) / running maximum, never above 0, and 0 exactly
\* where the price is at its running maximum; the prices 100, 90, 95, 80, 100
\* give the drawdowns 0, -0.10, -0.05, -0.20, 0 and a profile max_drawdown of
\* -20.0
C12_DrawdownFromRunningMax ==
    processed # None =>
        LET rows == processed.rows
        IN  /\ \A i \in DOMAIN rows :
                  (\A j \in GroupStart(rows, i)..i : rows[j].nav.v > 0) =>
                  /\ rows[i].cummax = Fin(PeakPrice(rows, i))
                  /\ GroupPos(rows, i) > 1 => rows[i].cummax.v >= rows[i - 1].cummax.v
                  /\ rows[i].drawdown =
                        Fin(RoundDiv((rows[i].nav.v - rows[i].cummax.v) * RScale,
                                     rows[i].cummax.v))
                  /\ rows[i].drawdown.v <= 0
                  /\ rows[i].drawdown.v = 0 <=> rows[i].nav = rows[i].cummax
            /\ nav_df = NavTable(1, Dips) =>
                  /\ Column(rows, "drawdown") =
                        <<Fin(0), Fin(-(RScale \div 10)), Fin(-(RScale \div 20)),
                          Fin(-(RScale \div 5)), Fin(0)>>
                  /\ Profiled /\ risk_code = Code(1) =>
                        risk_metrics.max_drawdown = Fin(-20 * ZScale)

\* C12 witness: the file with the prices 100, 90, 95, 80, 100 has been scored,
\* its fourth row has the drawdown -0.20, and the profile of the scheme has
\* been returned
C12_Witness ==
    /\ nav_df = NavTable(1, Dips)
    /\ processed # None
    /\ processed.rows[4].cummax = Fin(100)
    /\ processed.rows[4].drawdown = Fin(-(RScale \div 5))
    /\ Profiled
    /\ risk_code = Code(1)
    /\ risk_metrics.max_drawdown.v < 0

\* Every row of the table is a row of one scheme at one price
ConstantPrice(df) ==
    \A i \in DOMAIN df, j \in DOMAIN df :
        df[i].scheme_code = df[j].scheme_code /\ df[i].nav = df[j].nav

\* C14: a row whose rolling_std is 0, computed as 0 or undefined and filled by
\* 0, has the z-score 0; the rows of a scheme whose price never changes have
\* daily_return 0 and zscore 0, are no anomalies and are explained as "Normal
\* market behavior"
C14_ZeroDeviationZeroScore ==
    processed # None =>
        /\ \A i \in DOMAIN processed.rows :
              processed.rows[i].rolling_std = Fin(0) => processed.rows[i].zscore = Fin(0)
        /\ risk_df # None /\ ConstantPrice(risk_df.rows) =>
              \A i \in DOMAIN risk_df.rows :
                  /\ risk_df.rows[i].daily_return = Fin(0)
                  /\ risk_df.rows[i].zscore = Fin(0)
                  /\ risk_df.rows[i].is_anomaly = FALSE
                  /\ risk_df.rows[i].explanation = <<"Normal", "market", "behavior">>

\* C14 witness: a scheme of seven rows at one positive price has been scored
\* and classified; its last row has five returns in the window, all 0
C14_Witness ==
    /\ processed # None
    /\ risk_df # None
    /\ ConstantPrice(risk_df.rows)
    /\ Len(risk_df.rows) > MIN_PERIODS + 1
    /\ risk_df.rows[Len(risk_df.rows)].nav.v > 0
    /\ risk_df.rows[Len(risk_df.rows)].rolling_std = Fin(0)
    /\ risk_df.rows[Len(risk_df.rows)].explanation = <<"Normal", "market", "behavior">>

\* C15: analyze_fund_risk returns None when the table holds no row of the
\* scheme asked for, also when the table holds no row at all
C15_NoRowsNoProfile ==
    risk_code # None /\ (\A i \in DOMAIN risk_df.rows :
                            risk_df.rows[i].scheme_code # risk_code.v) =>
        risk_metrics = None

\* C15 witness: analyze_fund_risk has been called for a scheme that a table
\* with rows of another scheme does not hold, and has returned None
C15_Witness ==
    /\ risk_code # None
    /\ risk_df.rows # <<>>
    /\ \A i \in DOMAIN risk_df.rows : risk_df.rows[i].scheme_code # risk_code.v
    /\ risk_metrics = None

\* The anomalous rows among the rows analyze_fund_risk was called for, and the
\* sum of their |zscore|
AnomalousRows == SelectSeq(FundRows, LAMBDA r : r.is_anomaly)
MagnitudeSum == SumSeq([j \in DOMAIN AnomalousRows |-> IAbs(AnomalousRows[j].zscore.v)])

\* C16: for a classified series without an anomalous row the profile has
\* avg_anomaly_magnitude 0 and anomaly_frequency 0; with anomalous rows,
\* avg_anomaly_magnitude is the mean |zscore| of the anomalous rows alone, to
\* two decimals
C16_AvgAnomalyMagnitude ==
    Profiled =>
        IF AnomalousRows = <<>>
        THEN /\ risk_metrics.avg_anomaly_magnitude = Fin(0)
             /\ risk_metrics.anomaly_frequency = Fin(0)
        ELSE /\ IsFin(risk_metrics.avg_anomaly_magnitude)
             /\ 2 * IAbs(risk_metrics.avg_anomaly_magnitude.v * Len(AnomalousRows)
                            - MagnitudeSum) <= Len(AnomalousRows)

\* The rate of anomalous rows is above num/den
RateAbove(num, den) == Len(AnomalousRows) * den > num * Len(FundRows)

\* C17: risk_score is Low, Medium or High: the tier (5 or more High, 3 or more
\* Medium) of the points of the volatility of the last row (above 0.3: 3,
\* above 0.2: 2, above 0.1: 1) plus the points of the rate of anomalous rows
\* (above 0.10: 3, above 0.05: 2, above 0.02: 1), both taken as fractions
C17_RiskScoreTier ==
    Profiled =>
        LET volatility == FundRows[Len(FundRows)].volatility.v
            points ==
                (IF 10 * volatility > 3 * RScale THEN 3
                 ELSE IF 10 * volatility > 2 * RScale THEN 2
                 ELSE IF 10 * volatility > RScale THEN 1 ELSE 0)
                + (IF RateAbove(10, 100) THEN 3
                   ELSE IF RateAbove(5, 100) THEN 2
                   ELSE IF RateAbove(2, 100) THEN 1 ELSE 0)
        IN  /\ risk_metrics.risk_score \in {"Low", "Medium", "High"}
            /\ risk_metrics.risk_score =
                  (IF points >= 5 THEN "High" ELSE IF points >= 3 THEN "Medium" ELSE "Low")

\* C17 witness: a profile has been returned for a series whose last volatility
\* is exactly 0.3 and whose anomaly rate is exactly 0.10 (two points each), and
\* whose reported volatility, a percentage, is far above every cutoff
C17_Witness ==
    /\ Profiled
    /\ FundRows[Len(FundRows)].volatility = Fin((3 * RScale) \div 10)
    /\ Len(AnomalousRows) * 10 = Len(FundRows)
    /\ risk_metrics.risk_score = "Medium"
    /\ risk_metrics.volatility.v > ZScale

\* C20: every profile analyze_fund_risk returns has a finite volatility and a
\* finite sharpe_estimate, also for a series of one row and for a series of
\* equal returns, and its sharpe_estimate is 0 when the returns have no
\* deviation above 0
C20_FiniteProfile ==
    Profiled =>
        /\ IsFin(risk_metrics.volatility)
        /\ IsFin(risk_metrics.sharpe_estimate)
        /\ (\A i \in DOMAIN FundRows : FundRows[i].daily_return = FundRows[1].daily_return)
              => risk_metrics.sharpe_estimate = Fin(0)


-----------------------------------------------------------------------------
(* anomaly.py: get_recent_anomalies and get_anomaly_signals.  A date is a   *)
(* day number, pd.Timedelta(days=n) is n.                                   *)

\* if 'is_anomaly' not in df.columns: df = detect_anomalies(df)
EnsureClassified(df) ==
    IF df # <<>> /\ "is_anomaly" \notin df[1].cols
    THEN detect_anomalies(df, ZSCORE_THRESHOLD) ELSE df

\* df['date'].max()
MaxDate(df) ==
    LET dates == {df[i].date : i \in DOMAIN df}
    IN  CHOOSE m \in dates : \A d \in dates : d <= m

\* df[(df['is_anomaly'] == True) & (df['date'] >= max_date - pd.Timedelta(days=days))];
\* in a table without rows max_date is NaT and no row is compared
RecentRows(df, days) ==
    IF df = <<>> THEN <<>>
    ELSE SelectSeq(df, LAMBDA r : r.is_anomaly /\ r.date >= MaxDate(df) - days)

\* .sort_values('date', ascending=False): the sort is not stable, rows of one
\* date come out in table order or, with ties_reversed, in the opposite order
RECURSIVE InsertDescending(_, _, _)
InsertDescending(sorted, row, ties_reversed) ==
    IF sorted = <<>> THEN <<row>>
    ELSE LET last == sorted[Len(sorted)]
         IN  IF last.date > row.date \/ (last.date = row.date /\ ~ties_reversed)
             THEN Append(sorted, row)
             ELSE Append(InsertDescending(SubSeq(sorted, 1, Len(sorted) - 1), row,
                                          ties_reversed), last)

RECURSIVE SortDescending(_, _)
SortDescending(df, ties_reversed) ==
    IF df = <<>> THEN <<>>
    ELSE InsertDescending(SortDescending(SubSeq(df, 1, Len(df) - 1), ties_reversed),
                          df[Len(df)], ties_reversed)

\* mutant: a negative n yields no row
HeadRowsClamped(df, n) ==
    IF n >= 0 THEN SubSeq(df, 1, IF n < Len(df) THEN n ELSE Len(df))
    ELSE <<>>

\* df.head(n): the first n rows, and for a negative n all rows but the last -n
HeadRows(df, n) ==
    IF n >= 0 THEN SubSeq(df, 1, IF n < Len(df) THEN n ELSE Len(df))
    ELSE SubSeq(df, 1, IF Len(df) + n > 0 THEN Len(df) + n ELSE 0)

\* A text cell, or the default when the cell is no text or an empty one
\* not s.strip(): the string is empty or holds white space only
IsBlank(s) == s \in {"", " ", "  "}

TextOr(cell, default) == IF IsStr(cell) /\ ~IsBlank(cell.s) THEN cell.s ELSE default

\* scheme_code, fund_name and category of a record
SchemeCodeText(row) ==
    IF "scheme_code" \in row.cols THEN ToString(row.scheme_code) ELSE ""
FundName(row) ==
    TextOr(Get(row, "scheme_name", Str("")),
           IF SchemeCodeText(row) # "" THEN SchemeCodeText(row) ELSE "Unknown")
CategoryText(row) == TextOr(Get(row, "category", Str("")), "Unknown")

\* round(row.get('daily_return', 0) * 100, 2), in hundredths of a percent
PercentReturn(row) ==
    LET dr == Get(row, "daily_return", Fin(0))
    IN  IF IsFin(dr) THEN Fin(Round2(dr.v, 1000)) ELSE dr

\* One record of get_recent_anomalies
AnomalyRecord(row) ==
    [scheme_code |-> SchemeCodeText(row),
     fund_name |-> FundName(row),
     category |-> CategoryText(row),
     date |-> row.date,
     nav |-> row.nav,
     daily_return |-> PercentReturn(row),
     zscore |-> row.zscore,
     severity |-> row.severity,
     direction |-> row.anomaly_direction,
     explanation |-> row.explanation]

\* One record of get_anomaly_signals
SignalRecord(row) ==
    LET st == determine_signal_type(row)
    IN  [date |-> row.date,
         type |-> st.type, icon |-> st.icon, color |-> st.color, title |-> st.title,
         fund_name |-> FundName(row),
         scheme_code |-> SchemeCodeText(row),
         category |-> CategoryText(row),
         message |-> row.explanation,
         severity |-> row.severity,
         confidence |-> calculate_confidence_score(row.zscore),
         metrics |-> [nav |-> row.nav, change |-> PercentReturn(row),
                      zscore |-> row.zscore]]

get_recent_anomalies(df, days, limit, ties_reversed) ==
    LET recent == SortDescending(RecentRows(EnsureClassified(df), days), ties_reversed)
        rows == HeadRows(recent, limit)
    IN  [j \in DOMAIN rows |-> AnomalyRecord(rows[j])]

\* the lookback of get_anomaly_signals: pd.Timedelta(days=3)
SIGNAL_DAYS == 3

get_anomaly_signals(df, limit, ties_reversed) ==
    LET recent == SortDescending(RecentRows(EnsureClassified(df), SIGNAL_DAYS),
                                 ties_reversed)
        rows == HeadRows(recent, limit)
    IN  [j \in DOMAIN rows |-> SignalRecord(rows[j])]

-----------------------------------------------------------------------------
(* The lists of recent anomalies and of signals *)

\* Bound of the input tables
MaxFeedRows == 3

FeedDates == {5, 6, 9}
FeedScores == {0, 250}
FeedDays == {0, 3}
FeedLimits == {-1, 0, 1, 2, 5}

\* The processed tables of at most n rows, on any dates in any order, the rows
\* of two schemes alternating
FeedFrames(n) ==
    UNION {{Frame([j \in 1..m |-> DirectRow(1 + (j % 2), d[j], z[j], 0)]) :
                d \in [1..m -> FeedDates], z \in [1..m -> FeedScores]} : m \in 0..n}

\* Bound of the tables that have a category column
MaxCategoryRows == 2

\* The category cells of two schemes: a name and a null, an empty string and
\* white space
SchemeCategories ==
    {(1 :> Str("Equity") @@ 2 :> NaN), (1 :> Str("") @@ 2 :> Str("  "))}

\* Table df with the category column of the scheme details
WithCategory(df, categories) ==
    [i \in DOMAIN df |->
        [df[i] EXCEPT !.cols = @ \cup {"category"}]
            @@ [category |-> categories[df[i].scheme_code]]]

\* The tables passed in: classified ones, short ones not yet classified, and
\* classified ones with a category column
FeedTables ==
    {detect_anomalies(df, ZSCORE_THRESHOLD) : df \in FeedFrames(MaxFeedRows)}
    \cup FeedFrames(2)
    \cup {detect_anomalies(WithCategory(df, categories), ZSCORE_THRESHOLD) :
            df \in FeedFrames(MaxCategoryRows), categories \in SchemeCategories}

InitFeed ==
    /\ ConnIdle
    /\ StoreIdle
    /\ ClassifyIdle
    /\ RollingIdle
    /\ ProfileIdle
    /\ feed_df \in {Table(df) : df \in FeedTables}
    /\ feed_args = None
    /\ feed = None
    /\ summary = None
    /\ response = None

\* feed = get_recent_anomalies(feed_df, days, limit)
GetRecentAnomalies(days, limit, ties_reversed) ==
    /\ feed_args' = [days |-> days, limit |-> limit]
    /\ feed' = [k |-> "anomalies",
                records |-> get_recent_anomalies(feed_df.rows, days, limit, ties_reversed)]
    /\ UNCHANGED <<feed_df, summary, response, classifyVars, rollingVars, profileVars, storeVars, connVars>>

\* feed = get_anomaly_signals(feed_df, limit)
GetAnomalySignals(limit, ties_reversed) ==
    /\ feed_args' = [days |-> SIGNAL_DAYS, limit |-> limit]
    /\ feed' = [k |-> "signals",
                records |-> get_anomaly_signals(feed_df.rows, limit, ties_reversed)]
    /\ UNCHANGED <<feed_df, summary, response, classifyVars, rollingVars, profileVars, storeVars, connVars>>

NextFeed ==
    \/ \E days \in FeedDays, limit \in FeedLimits, ties_reversed \in BOOLEAN :
          GetRecentAnomalies(days, limit, ties_reversed)
    \/ \E limit \in FeedLimits, ties_reversed \in BOOLEAN :
          GetAnomalySignals(limit, ties_reversed)

SpecFeed == InitFeed /\ [][NextFeed]_vars

\* The rows of the table passed in that are anomalies within the lookback of
\* its latest date
Eligible ==
    {i \in DOMAIN feed_df.rows :
        /\ Get(feed_df.rows[i], "is_anomaly",
               FGt(FAbs(feed_df.rows[i].zscore), ZSCORE_THRESHOLD))
        /\ \A j \in DOMAIN feed_df.rows :
              feed_df.rows[i].date >= feed_df.rows[j].date - feed_args.days}

\* Record r was made from row i
RecordOf(r, i) ==
    /\ r.scheme_code = ToString(feed_df.rows[i].scheme_code)
    /\ r.date = feed_df.rows[i].date
    /\ r.severity # "normal"

\* The records returned are records of eligible rows, the later dates first,
\* and no eligible row that is left out is later than a returned one
LatestEligibleFirst ==
    /\ \A j \in DOMAIN feed.records :
          \E i \in Eligible : RecordOf(feed.records[j], i)
    /\ \A j \in DOMAIN feed.records :
          j > 1 => feed.records[j - 1].date >= feed.records[j].date
    /\ \A i \in Eligible :
          \/ \E j \in DOMAIN feed.records : RecordOf(feed.records[j], i)
          \/ \A j \in DOMAIN feed.records :
                feed_df.rows[i].date <= feed.records[j].date

ArgumentKept ==
    /\ classified' # None => scored' = scored
    /\ reclassified' # None => classified' = classified

\* C19: detect_anomalies applied to the table it returned, with the same
\* threshold, returns every row with the same is_anomaly, severity, direction
\* and explanation, and no call changes a column or a value of the table
\* passed in
C19_IdempotentNoMutation ==
    /\ [](reclassified # None =>
            /\ DOMAIN reclassified.rows = DOMAIN classified.rows
            /\ \A i \in DOMAIN classified.rows :
                  /\ reclassified.rows[i].is_anomaly = classified.rows[i].is_anomaly
                  /\ reclassified.rows[i].severity = classified.rows[i].severity
                  /\ reclassified.rows[i].anomaly_direction
                        = classified.rows[i].anomaly_direction
                  /\ reclassified.rows[i].explanation = classified.rows[i].explanation)
    /\ [][ArgumentKept]_vars

\* C19 witness: a table with an anomalous row has been classified twice; the
\* table first passed in still has no is_anomaly column
C19_Witness ==
    /\ reclassified # None
    /\ \E i \in DOMAIN classified.rows :
          /\ classified.rows[i].is_anomaly
          /\ classified.rows[i].severity = "high"
          /\ reclassified.rows[i].severity = "high"
          /\ Len(reclassified.rows[i].explanation) > 3
    /\ \A i \in DOMAIN scored : "is_anomaly" \notin scored[i].cols

-----------------------------------------------------------------------------
(* The summary of a classified table and the signals endpoint *)

SeverityCountOfAll(anomalies, severity) == Len(anomalies)

\* len(anomalies[anomalies['severity'] == severity])
SeverityCount(anomalies, severity) ==
    Len(SelectSeq(anomalies, LAMBDA row : row.severity = severity))

\* len(anomalies[anomalies['anomaly_direction'] == direction])
DirectionCount(anomalies, direction) ==
    Len(SelectSeq(anomalies, LAMBDA row : row.anomaly_direction = direction))

\* The counts of a classified table; anomaly_rate in hundredths of a percent
get_anomaly_summary(df) ==
    LET anomalies == SelectSeq(df, LAMBDA row : row.is_anomaly)
    IN  IF anomalies = <<>>
        THEN [total_anomalies |-> 0, high_severity |-> 0, medium_severity |-> 0,
              up_movements |-> 0, down_movements |-> 0, affected_funds |-> 0,
              anomaly_rate |-> 0]
        ELSE [total_anomalies |-> Len(anomalies),
              high_severity |-> SeverityCount(anomalies, "high"),
              medium_severity |-> SeverityCount(anomalies, "medium"),
              up_movements |-> DirectionCount(anomalies, "up"),
              down_movements |-> DirectionCount(anomalies, "down"),
              affected_funds |-> Cardinality(SchemesOf(anomalies)),
              anomaly_rate |-> Round2(100 * Len(anomalies), Len(df))]

\* signals[:limit] of a list
SliceTo(signals, limit) ==
    IF limit >= 0 THEN SubSeq(signals, 1, IF limit < Len(signals) THEN limit ELSE Len(signals))
    ELSE SubSeq(signals, 1, IF Len(signals) + limit > 0 THEN Len(signals) + limit ELSE 0)

\* The list GET /signals returns for the processed table df; severity "" is
\* the query without a severity filter
get_signals(df, limit, severity, ties_reversed) ==
    LET signals == get_anomaly_signals(detect_anomalies(df, ZSCORE_THRESHOLD),
                                       limit * 2, ties_reversed)
        filtered == IF severity # ""
                    THEN SelectSeq(signals, LAMBDA sig : sig.severity = severity)
                    ELSE signals
    IN  SliceTo(filtered, limit)

\* Bound of the tables
MaxSignalRows == 3

SignalDates == {5, 8, 9}
SignalScores == {0, 250, -350}
SignalLimits == {0, 1, 2}
SeverityFilters == {"", "high", "medium"}

\* No scheme has two rows of one date
OnePerDay(rows) ==
    \A i, j \in DOMAIN rows :
        rows[i].scheme_code = rows[j].scheme_code /\ rows[i].date = rows[j].date => i = j

\* The processed tables of at most n rows on the signal dates, in the order
\* compute_rolling_metrics leaves them in, a scheme with one row a day
SignalFrames(n) ==
    UNION {{Frame(SortValues(rows)) :
                rows \in {r \in {[j \in 1..m |-> DirectRow(1 + (j % 2), d[j], z[j], 0)] :
                                    d \in [1..m -> SignalDates],
                                    z \in [1..m -> SignalScores]} : OnePerDay(r)}} :
           m \in 0..n}

\* The tables classified with the default threshold
SignalTables ==
    {detect_anomalies(df, ZSCORE_THRESHOLD) : df \in SignalFrames(MaxSignalRows)}

InitSignals ==
    /\ ConnIdle
    /\ StoreIdle
    /\ ClassifyIdle
    /\ RollingIdle
    /\ ProfileIdle
    /\ feed_df \in {Table(df) : df \in SignalTables}
    /\ feed_args = None
    /\ feed = None
    /\ summary = None
    /\ response = None

\* summary = get_anomaly_summary(feed_df)
GetAnomalySummary ==
    /\ summary' = get_anomaly_summary(feed_df.rows)
    /\ UNCHANGED <<feed_df, feed_args, feed, response, classifyVars, rollingVars,
                   profileVars, storeVars, connVars>>

\* GET /signals?limit=..&severity=.. on the processed table feed_df
GetSignals(limit, severity, ties_reversed) ==
    /\ response' = [limit |-> limit, severity |-> severity,
                    signals |-> get_signals(feed_df.rows, limit, severity, ties_reversed)]
    /\ UNCHANGED <<feed_df, feed_args, feed, summary, classifyVars, rollingVars,
                   profileVars, storeVars, connVars>>

NextSignals ==
    \/ GetAnomalySummary
    \/ \E limit \in SignalLimits, severity \in SeverityFilters, ties_reversed \in BOOLEAN :
          GetSignals(limit, severity, ties_reversed)

SpecSignals == InitSignals /\ [][NextSignals]_vars

\* The anomalous rows of the table
AnomalyRows == {i \in DOMAIN feed_df.rows : feed_df.rows[i].is_anomaly}

\* C21: the counts of a table classified with the default threshold agree:
\* high and medium add up to the total, up and down add up to the total, the
\* affected funds are at most the total, the rate lies between 0 and 100
\* percent, and a table without an anomalous row, the empty table included,
\* gets the count 0 everywhere
C21_SummaryConsistent ==
    summary # None =>
        /\ summary.total_anomalies = Cardinality(AnomalyRows)
        /\ summary.high_severity + summary.medium_severity = summary.total_anomalies
        /\ summary.up_movements + summary.down_movements = summary.total_anomalies
        /\ summary.affected_funds <= summary.total_anomalies
        /\ summary.anomaly_rate >= 0
        /\ summary.anomaly_rate <= 100 * 100
        /\ AnomalyRows = {} =>
              /\ summary.total_anomalies = 0
              /\ summary.high_severity = 0
              /\ summary.medium_severity = 0
              /\ summary.up_movements = 0
              /\ summary.down_movements = 0
              /\ summary.affected_funds = 0
              /\ summary.anomaly_rate = 0

\* C21 witness: a table with a high and a medium anomaly of one fund and a
\* normal row has been summarised
C21_Witness ==
    /\ summary # None
    /\ summary.total_anomalies = 2
    /\ summary.high_severity = 1
    /\ summary.medium_severity = 1
    /\ summary.affected_funds = 1
    /\ summary.anomaly_rate = 6667

\* The endings of the titles of _determine_signal_type
TitleEndings ==
    {" fund major drop detected", " fund unusual spike", " fund volatility alert",
     " fund movement detected"}

\* C22: in every signal of get_anomaly_signals the title names the category
\* of the signal's category field, 'Unknown' included
C22_TitleNamesCategory ==
    (feed # None /\ feed.k = "signals") =>
        \A j \in DOMAIN feed.records :
            \E ending \in TitleEndings :
                feed.records[j].title = feed.records[j].category \o ending

\* The rows of the table that are anomalies of the severity asked for within
\* the lookback of the latest date
Matching ==
    {i \in DOMAIN feed_df.rows :
        /\ feed_df.rows[i].is_anomaly
        /\ feed_df.rows[i].severity = response.severity
        /\ \A j \in DOMAIN feed_df.rows :
              feed_df.rows[i].date >= feed_df.rows[j].date - SIGNAL_DAYS}

\* C23: GET /signals with limit L and severity filter s returns min(L, k)
\* signals, k the number of anomalous rows of severity s within the lookback;
\* they have severity s and no matching row left out is later than a returned
\* one
C23_SignalsFilledToLimit ==
    (response # None /\ response.severity # "") =>
        /\ Len(response.signals)
              = IF response.limit < Cardinality(Matching)
                THEN response.limit ELSE Cardinality(Matching)
        /\ \A j \in DOMAIN response.signals :
              /\ response.signals[j].severity = response.severity
              /\ \A i \in Matching :
                    \/ feed_df.rows[i].date <= response.signals[j].date
                    \/ \E n \in DOMAIN response.signals :
                          /\ response.signals[n].date = feed_df.rows[i].date
                          /\ response.signals[n].scheme_code
                                = ToString(feed_df.rows[i].scheme_code)

-----------------------------------------------------------------------------
(* The data store: the stored file, the four caches and the upload *)

\* Bound of the stored files: rows of a scheme
MaxFileRows == 2

\* The four caches as one value
Caches ==
    [nav |-> nav_cache, scheme |-> scheme_cache, processed |-> processed_cache,
     overview |-> overview_cache]

CachesClearedButProcessed(caches) ==
    [caches EXCEPT !.nav = None, !.scheme = None, !.overview = None]

\* The caches after _clear_cache()
CachesCleared(caches) ==
    [nav |-> None, scheme |-> None, processed |-> None, overview |-> None]

\* A table with its columns
DataFrame(columns, rows) == [k |-> "table", columns |-> columns, rows |-> rows]

\* A call that raised, and a call that returned a value; both with the caches
\* it leaves
Raised(caches) == [raised |-> TRUE, value |-> None, caches |-> caches]
Returned(value, caches) == [raised |-> FALSE, value |-> value, caches |-> caches]

\* The table of the seeded random walk, the same at every call: two of its
\* schemes on two of its days stand for it, scheme 'MF001' written 1001
generate_sample_nav_data ==
    DataFrame({"scheme_code", "scheme_name", "date", "nav"},
        <<[scheme_code |-> 1001, scheme_name |-> Str("Blue Chip Growth Fund"),
           date |-> 1, nav |-> 100],
          [scheme_code |-> 1001, scheme_name |-> Str("Blue Chip Growth Fund"),
           date |-> 2, nav |-> 105],
          [scheme_code |-> 1002, scheme_name |-> Str("Stable Income Fund"),
           date |-> 1, nav |-> 100],
          [scheme_code |-> 1002, scheme_name |-> Str("Stable Income Fund"),
           date |-> 2, nav |-> 100]>>)

\* The first two rows of the sample scheme details
generate_sample_scheme_data ==
    DataFrame({"scheme_code", "scheme_name", "category", "fund_type"},
        <<[scheme_code |-> 1001, scheme_name |-> Str("Blue Chip Growth Fund"),
           category |-> Str("Large Cap"), fund_type |-> Str("Equity")],
          [scheme_code |-> 1002, scheme_name |-> Str("Stable Income Fund"),
           category |-> Str("Debt"), fund_type |-> Str("Debt")]>>)

\* The stored file read, sorted by scheme and date, and cached; the sample
\* table while no file is stored; a file without a nav column raises
load_nav_data(file, caches) ==
    IF caches.nav # None THEN Returned(caches.nav, caches)
    ELSE IF file = None
    THEN Returned(generate_sample_nav_data,
                  [caches EXCEPT !.nav = generate_sample_nav_data])
    ELSE IF "nav" \notin file.columns THEN Raised(caches)
    ELSE LET df == DataFrame(file.columns, SortValues(file.rows))
         IN  Returned(df, [caches EXCEPT !.nav = df])

\* F of the value of x, for a value used more than once
With(x, F(_)) == CHOOSE r \in {F(y) : y \in {x}} : TRUE

\* df[columns]
Project(rows, columns) ==
    [i \in DOMAIN rows |-> [c \in columns |-> rows[i][c]]]

\* drop_duplicates('scheme_code'): the first row of every scheme
DropDuplicates(rows) ==
    LET first == {i \in DOMAIN rows :
                     \A j \in 1..(i - 1) : rows[j].scheme_code # rows[i].scheme_code}
        at(n) == CHOOSE i \in first : Cardinality({j \in first : j < i}) = n - 1
    IN  [n \in 1..Cardinality(first) |-> rows[at(n)]]

\* fillna('') of the text columns
FillText(row, columns) ==
    [c \in DOMAIN row |->
        IF c \in columns /\ c # "scheme_code" /\ ~IsStr(row[c]) THEN Str("") ELSE row[c]]

\* The scheme details of a NAV table: taken from the table when it has any,
\* the sample details otherwise
SchemeDetails(nav) ==
    LET detail_cols ==
            nav.columns \cap {"scheme_code", "scheme_name", "category", "fund_type"}
        details ==
            IF detail_cols # {"scheme_code"}
            THEN DataFrame(detail_cols, DropDuplicates(Project(nav.rows, detail_cols)))
            ELSE generate_sample_scheme_data
    IN  DataFrame(details.columns,
                  [n \in DOMAIN details.rows |->
                      FillText(details.rows[n], details.columns)])

\* The scheme details of the NAV table, cached
load_scheme_details(file, caches) ==
    IF caches.scheme # None THEN Returned(caches.scheme, caches)
    ELSE With(load_nav_data(file, caches), LAMBDA nav :
            IF nav.raised THEN nav
            ELSE With(SchemeDetails(nav.value), LAMBDA df :
                    Returned(df, [nav.caches EXCEPT !.scheme = df])))

\* nav_df.merge(scheme_df, on='scheme_code', how='left'): the columns of the
\* details, null for a scheme the details do not have
Merge(nav, scheme) ==
    LET added == scheme.columns \ {"scheme_code"}
        cell(row, c) ==
            IF \E n \in DOMAIN scheme.rows : scheme.rows[n].scheme_code = row.scheme_code
            THEN scheme.rows[CHOOSE n \in DOMAIN scheme.rows :
                                scheme.rows[n].scheme_code = row.scheme_code][c]
            ELSE NaN
    IN  DataFrame(nav.columns \cup added,
                  [i \in DOMAIN nav.rows |->
                      nav.rows[i] @@ [c \in added |-> cell(nav.rows[i], c)]])

\* compute_rolling_metrics(df, window) with the cache it reads and writes
compute_rolling_metrics(df, w, caches) ==
    IF caches.processed # None THEN Returned(caches.processed, caches)
    ELSE With(Table(RollingMetrics(df, w)), LAMBDA out :
            Returned(out, [caches EXCEPT !.processed = out]))

get_processed_data(file, caches) ==
    With(load_nav_data(file, caches), LAMBDA nav :
        IF nav.raised THEN nav
        ELSE With(load_scheme_details(file, nav.caches), LAMBDA scheme :
                With(IF "scheme_name" \notin nav.value.columns
                     THEN Merge(nav.value, scheme.value) ELSE nav.value,
                     LAMBDA merged :
                        compute_rolling_metrics(merged.rows, DEFAULT_WINDOW,
                                                scheme.caches))))

\* sort_values('date').groupby('scheme_code').last(): the latest row of every
\* scheme, the schemes in ascending order
LatestRows(df) ==
    LET codes == SchemesOf(df)
        code(n) == CHOOSE c \in codes : Cardinality({b \in codes : b < c}) = n - 1
        last(c) == CHOOSE i \in DOMAIN df :
                      /\ df[i].scheme_code = c
                      /\ \A j \in DOMAIN df :
                            df[j].scheme_code = c =>
                                \/ df[j].date < df[i].date
                                \/ df[j].date = df[i].date /\ j <= i
    IN  [n \in 1..Cardinality(codes) |-> df[last(code(n))]]

\* _safe_float
SafeFloat(x) == IF IsFin(x) THEN x ELSE Fin(0)

\* abs(zscore) > 2 as the data store writes it
AboveTwo(z) == FGt(FAbs(z), 2 * ZScale)

\* The scheme_code, latest_nav, zscore and anomaly_flag of a record of
\* get_fund_list
FundSummary(row) ==
    [scheme_code |-> ToString(row.scheme_code),
     latest_nav |-> SafeFloat(row.nav),
     zscore |-> SafeFloat(row.zscore),
     anomaly_flag |-> AboveTwo(SafeFloat(row.zscore))]

get_fund_list(file, caches) ==
    With(get_processed_data(file, caches), LAMBDA data :
        IF data.raised THEN data
        ELSE With(load_scheme_details(file, data.caches), LAMBDA scheme :
                With(LatestRows(data.value.rows), LAMBDA latest :
                    Returned([n \in DOMAIN latest |-> FundSummary(latest[n])],
                             scheme.caches))))

\* The counts of the overview of a processed table, anomaly_rate in tenths of
\* a percent; the averages, the category statistics and the time stamp are
\* left out
Overview(df, latest, max_date) ==
    LET total_funds == Len(latest)
        funds_in_anomaly == Len(SelectSeq(latest, LAMBDA row : AboveTwo(row.zscore)))
        recent_anomalies ==
            SelectSeq(df, LAMBDA row : AboveTwo(row.zscore) /\ row.date >= max_date - 7)
    IN  [total_funds |-> total_funds,
         funds_in_anomaly |-> funds_in_anomaly,
         anomaly_rate |-> IF total_funds > 0
                          THEN RoundHalfEven(funds_in_anomaly * 1000, total_funds)
                          ELSE 0,
         recent_anomaly_count |-> Len(recent_anomalies)]

get_overview(file, caches) ==
    IF caches.overview # None THEN Returned(caches.overview, caches)
    ELSE With(get_processed_data(file, caches), LAMBDA data :
            IF data.raised THEN data
            ELSE With(LatestRows(data.value.rows), LAMBDA latest :
                    With(MaxDate(data.value.rows), LAMBDA max_date :
                        With(Overview(data.value.rows, latest, max_date),
                             LAMBDA overview :
                                Returned(overview,
                                         [data.caches EXCEPT !.overview = overview])))))

StoreNavs == {100, 105}
Surge == <<100, 105, 100, 105, 100, 105, 100, 150>>

\* The files: short ones of one scheme, one of two schemes, one whose scheme
\* ends on an anomaly, and one without a nav column
StoreFiles ==
    {DataFrame({"scheme_code", "date", "nav"}, NavTable(1, navs)) :
        navs \in UNION {[1..m -> StoreNavs] : m \in 1..MaxFileRows}}
    \cup {DataFrame({"scheme_code", "date", "nav"},
                    NavTable(2, <<100>>) \o NavTable(1, <<105>>)),
          DataFrame({"scheme_code", "date", "nav"}, NavTable(1, Surge)),
          DataFrame({"scheme_code", "date"}, <<[scheme_code |-> 1, date |-> 1]>>)}

InitStore ==
    /\ ConnIdle
    /\ ClassifyIdle
    /\ ProfileIdle
    /\ FeedIdle
    /\ nav_df = <<>>
    /\ window = DEFAULT_WINDOW
    /\ processed = None
    /\ processed_cache = None
    /\ parquet_file \in {None} \cup StoreFiles
    /\ nav_cache = None
    /\ scheme_cache = None
    /\ overview_cache = None
    /\ discarded = None
    /\ reply = None

\* The caches and the reply a request of the data store leaves
Answer(op, out) ==
    /\ nav_cache' = out.caches.nav
    /\ scheme_cache' = out.caches.scheme
    /\ processed_cache' = out.caches.processed
    /\ overview_cache' = out.caches.overview
    /\ reply' = [op |-> op, raised |-> out.raised, body |-> out.value]
    /\ UNCHANGED <<parquet_file, discarded, nav_df, window, processed, classifyVars,
                   profileVars, feedVars, connVars>>

GetProcessedData ==
    \E out \in {get_processed_data(parquet_file, Caches)} :
        Answer("get_processed_data", out)

GetFundList ==
    \E out \in {get_fund_list(parquet_file, Caches)} : Answer("get_fund_list", out)

GetOverview ==
    \E out \in {get_overview(parquet_file, Caches)} : Answer("get_overview", out)

\* POST /upload of a file that parses: it is stored and the caches are cleared
UploadNavFile(file) ==
    /\ parquet_file' = file
    /\ discarded' = Caches
    /\ nav_cache' = CachesCleared(Caches).nav
    /\ scheme_cache' = CachesCleared(Caches).scheme
    /\ processed_cache' = CachesCleared(Caches).processed
    /\ overview_cache' = CachesCleared(Caches).overview
    /\ reply' = [op |-> "upload", raised |-> FALSE,
                 body |-> [success |-> TRUE, total_rows |-> Len(file.rows),
                           columns |-> file.columns]]
    /\ UNCHANGED <<nav_df, window, processed, classifyVars, profileVars, feedVars, connVars>>

\* POST /upload of a file of another kind, or of one that does not parse: 400
UploadRejected ==
    /\ reply' = [op |-> "upload", raised |-> TRUE, body |-> None]
    /\ UNCHANGED <<parquet_file, discarded, nav_cache, scheme_cache, overview_cache,
                   rollingVars, classifyVars, profileVars, feedVars, connVars>>

NextStore ==
    \/ GetProcessedData
    \/ GetFundList
    \/ GetOverview
    \/ \E file \in StoreFiles : UploadNavFile(file)
    \/ UploadRejected

SpecStore == InitStore /\ [][NextStore]_vars

\* No cache holds anything
NoCaches == [nav |-> None, scheme |-> None, processed |-> None, overview |-> None]

\* C24: the reply of get_processed_data, get_fund_list and get_overview is
\* what the file now stored gives, whatever was loaded before the latest
\* upload; and an overview held in the cache is the overview of the processed
\* table held in the cache
C24_CachesFollowUpload ==
    /\ (reply # None /\ reply.op = "get_processed_data") =>
            /\ reply.raised = get_processed_data(parquet_file, NoCaches).raised
            /\ reply.body = get_processed_data(parquet_file, NoCaches).value
    /\ (reply # None /\ reply.op = "get_fund_list") =>
            /\ reply.raised = get_fund_list(parquet_file, NoCaches).raised
            /\ reply.body = get_fund_list(parquet_file, NoCaches).value
    /\ (reply # None /\ reply.op = "get_overview") =>
            /\ reply.raised = get_overview(parquet_file, NoCaches).raised
            /\ reply.body = get_overview(parquet_file, NoCaches).value
    /\ overview_cache # None =>
            /\ processed_cache # None
            /\ processed_cache = get_processed_data(parquet_file, NoCaches).value
            /\ overview_cache = get_overview(parquet_file, Caches).value
            /\ overview_cache = get_overview(parquet_file, NoCaches).value

\* C24 witness: an upload cleared a cached overview, and the overview given
\* afterwards differs from it
C24_Witness ==
    /\ reply # None
    /\ reply.op = "get_overview"
    /\ ~reply.raised
    /\ discarded # None
    /\ discarded.overview # None
    /\ discarded.overview # reply.body
    /\ reply.body.funds_in_anomaly = 1

-----------------------------------------------------------------------------
(* The connection manager and the two websocket handlers *)

\* Bound: the websockets that ever connect
MaxWebSockets == 2

WebSockets == 1..MaxWebSockets

\* websocket in self.active_connections
Connected(connections, websocket) ==
    \E n \in DOMAIN connections : connections[n] = websocket

\* self.active_connections.remove(websocket): the list without the first
\* entry equal to the websocket
Remove(connections, websocket) ==
    LET n == CHOOSE m \in DOMAIN connections :
                 /\ connections[m] = websocket
                 /\ \A l \in 1..(m - 1) : connections[l] # websocket
    IN  SubSeq(connections, 1, n - 1) \o SubSeq(connections, n + 1, Len(connections))

disconnect_without_remove(connections, websocket) == connections

\* ConnectionManager.disconnect
disconnect(connections, websocket) ==
    IF Connected(connections, websocket) THEN Remove(connections, websocket)
    ELSE connections

\* The endpoints, and what makes a handler that has connected leave its try
\* block at an await: an exception of send_json, sleep or receive_text, the
\* cancellation of its task, and for /ws/subscribe the disconnect of the client
Endpoints == {"simulate_stream", "websocket_fund_stream"}
Endings(endpoint) ==
    IF endpoint = "simulate_stream" THEN {"exception", "cancelled"}
    ELSE {"WebSocketDisconnect", "exception", "cancelled"}

\* The texts a client of /ws/subscribe sends
Texts == {"ping", "unsubscribe"}

Unused == [pc |-> "unused", endpoint |-> "", received |-> "", ended_by |-> ""]

InitConnections ==
    /\ ClassifyIdle
    /\ RollingIdle
    /\ ProfileIdle
    /\ FeedIdle
    /\ StoreIdle
    /\ active_connections = <<>>
    /\ handler = [websocket \in WebSockets |-> Unused]
    /\ disconnect_call = None

connIdleRest == <<classifyVars, rollingVars, profileVars, feedVars, storeVars>>

\* A client opens a websocket on an endpoint: the handler awaits accept()
Open(websocket, endpoint) ==
    /\ handler[websocket].pc = "unused"
    /\ handler' = [handler EXCEPT ![websocket] =
                      [pc |-> "accept", endpoint |-> endpoint, received |-> "",
                       ended_by |-> ""]]
    /\ UNCHANGED <<active_connections, disconnect_call, connIdleRest>>

\* accept() returns and connect appends the websocket; simulate_stream goes on
\* to send the market summary, websocket_fund_stream to receive
Accept(websocket) ==
    /\ handler[websocket].pc = "accept"
    /\ active_connections' = Append(active_connections, websocket)
    /\ handler' = [handler EXCEPT ![websocket].pc =
                      IF handler[websocket].endpoint = "simulate_stream"
                      THEN "send_summary" ELSE "receive_text"]
    /\ UNCHANGED <<disconnect_call, connIdleRest>>

\* accept() raises or the task is cancelled in it: connect is outside the try
\* block, the handler ends without a disconnect
AcceptFails(websocket, ending) ==
    /\ handler[websocket].pc = "accept"
    /\ handler' = [handler EXCEPT ![websocket].pc = "ended",
                                  ![websocket].ended_by = ending]
    /\ UNCHANGED <<active_connections, disconnect_call, connIdleRest>>

\* simulate_stream: a send_json returns, the handler sleeps; the sleep
\* returns, the handler sends the next message
Send(websocket) ==
    /\ handler[websocket].pc \in {"send_summary", "send", "sleep"}
    /\ handler' = [handler EXCEPT ![websocket].pc =
                      IF handler[websocket].pc = "send" THEN "sleep" ELSE "send"]
    /\ UNCHANGED <<active_connections, disconnect_call, connIdleRest>>

\* websocket_fund_stream: receive_text returns a text; 'unsubscribe' leaves
\* the loop, the finally clause disconnects the websocket and the handler
\* ends; after any other text the handler receives on
Receive(websocket, data) ==
    /\ handler[websocket].pc = "receive_text"
    /\ IF data = "unsubscribe"
       THEN /\ active_connections' = disconnect(active_connections, websocket)
            /\ disconnect_call' =
                  [websocket |-> websocket, before |-> active_connections,
                   after |-> disconnect(active_connections, websocket)]
            /\ handler' = [handler EXCEPT ![websocket].pc = "ended",
                                          ![websocket].received = data,
                                          ![websocket].ended_by = "unsubscribe"]
       ELSE /\ handler' = [handler EXCEPT ![websocket].received = data]
            /\ UNCHANGED <<active_connections, disconnect_call>>
    /\ UNCHANGED connIdleRest

\* The handler leaves its try block at the await it is in by an exception or
\* a cancellation: the finally clause disconnects the websocket and the
\* handler ends
End(websocket, ending) ==
    /\ handler[websocket].pc \in {"send_summary", "send", "sleep", "receive_text"}
    /\ ending \in Endings(handler[websocket].endpoint)
    /\ active_connections' = disconnect(active_connections, websocket)
    /\ disconnect_call' = [websocket |-> websocket, before |-> active_connections,
                           after |-> disconnect(active_connections, websocket)]
    /\ handler' = [handler EXCEPT ![websocket].pc = "ended",
                                  ![websocket].ended_by = ending]
    /\ UNCHANGED connIdleRest

\* manager.disconnect(websocket) called for any websocket
Disconnect(websocket) ==
    /\ active_connections' = disconnect(active_connections, websocket)
    /\ disconnect_call' = [websocket |-> websocket, before |-> active_connections,
                           after |-> disconnect(active_connections, websocket)]
    /\ UNCHANGED <<handler, connIdleRest>>

NextConnections ==
    \/ \E websocket \in WebSockets, endpoint \in Endpoints : Open(websocket, endpoint)
    \/ \E websocket \in WebSockets : Accept(websocket)
    \/ \E websocket \in WebSockets, ending \in {"exception", "cancelled"} :
          AcceptFails(websocket, ending)
    \/ \E websocket \in WebSockets : Send(websocket)
    \/ \E websocket \in WebSockets, data \in Texts : Receive(websocket, data)
    \/ \E websocket \in WebSockets,
          ending \in {"WebSocketDisconnect", "exception", "cancelled"} :
          End(websocket, ending)
    \/ \E websocket \in WebSockets : Disconnect(websocket)

SpecConnections == InitConnections /\ [][NextConnections]_vars

\* C25: a websocket in active_connections has been accepted and its handler
\* has not ended, it is there once, no websocket whose handler ended is there,
\* and a disconnect of a websocket that is not in the list leaves the list as
\* it was
C25_ConnectedWhileHandled ==
    /\ \A n \in DOMAIN active_connections :
          /\ handler[active_connections[n]].pc
                \in {"send_summary", "send", "sleep", "receive_text"}
          /\ \A m \in DOMAIN active_connections :
                active_connections[m] = active_connections[n] => m = n
    /\ \A websocket \in WebSockets :
          handler[websocket].pc = "ended" => ~Connected(active_connections, websocket)
    /\ disconnect_call # None =>
          /\ ~Connected(disconnect_call.after, disconnect_call.websocket)
          /\ ~Connected(disconnect_call.before, disconnect_call.websocket)
                => disconnect_call.after = disconnect_call.before

\* C25 witness: of two websockets connected at once the first one's handler
\* ended by cancellation, the other one is still in the list, and the latest
\* disconnect was one of a websocket that was not in the list
C25_Witness ==
    /\ handler[1].pc = "ended"
    /\ handler[1].ended_by = "cancelled"
    /\ handler[1].endpoint = "simulate_stream"
    /\ active_connections = <<2>>
    /\ handler[2].pc = "receive_text"
    /\ disconnect_call # None
    /\ disconnect_call.websocket = 1
    /\ disconnect_call.before = <<2>>


=============================================================================
